---- MODULE Spec2Model ----
(***************************************************************************)
(* Model of the zh.zaimanhua source: the MangaMerger and the author search *)
(* of helpers.rs.  Strings are sequences of one-character strings, so that *)
(* trimming, splitting, substring search, formatting and parsing are       *)
(* computed as the code computes them.                                     *)
(***************************************************************************)
EXTENDS Integers, Sequences, FiniteSets

VARIABLES
    merger,        \* MangaMerger { seen_ids, results }
    offers,        \* log of the (id, manga) pairs offered to try_add
    lastOp,        \* the last MangaMerger call and what it returned
    finished,      \* what finish() returned, None before
    defaults,      \* the settings store: auth_token, enhancedMode, showHiddenContent, ...
    pc,            \* the stage search_by_author is about to run
    author, page,  \* the arguments of search_by_author
    loc,           \* the local variables of search_by_author
    requests,      \* the network requests issued so far, by endpoint
    fuzzyCalls,    \* the calls of try_fuzzy_author_search so far
    stages,        \* the stages entered so far, in order
    result,        \* what search_by_author returned, None before
    kw,            \* the locals and counters of search_by_keyword
    inv,           \* one call of a helper: its name, arguments and return value
    host           \* the host runtime of the settings: its clock and what it observed

mergerVars == <<merger, offers, lastOp, finished>>

authorVars == <<defaults, pc, author, page, loc, requests, fuzzyCalls, stages, result>>

vars == <<merger, offers, lastOp, finished,
          defaults, pc, author, page, loc, requests, fuzzyCalls, stages, result,
          kw, inv, host>>

None == [none |-> TRUE]
Some(v) == [some |-> v]
IsSome(o) == "some" \in DOMAIN o

----------------------------------------------------------------------------
(* Strings *)

Digits == <<"0", "1", "2", "3", "4", "5", "6", "7", "8", "9">>

IsDigit(c) == \E i \in 1..10 : Digits[i] = c

DigitVal(c) == (CHOOSE i \in 1..10 : Digits[i] = c) - 1

RECURSIVE NatToString(_)
NatToString(n) ==
    IF n < 10 THEN <<Digits[n + 1]>>
    ELSE NatToString(n \div 10) \o <<Digits[(n % 10) + 1]>>

\* i64::to_string
ToString(n) == IF n < 0 THEN <<"-">> \o NatToString(-n) ELSE NatToString(n)

RECURSIVE DigitsValue(_, _)
DigitsValue(s, acc) ==
    IF s = <<>> THEN acc
    ELSE DigitsValue(Tail(s), acc * 10 + DigitVal(Head(s)))

\* str::parse::<i64>: an optional sign, then one or more ASCII digits.  The
\* range error of parse needs 19 digits; every key of the model is shorter.
ParseI64(s) ==
    LET body == IF s # <<>> /\ Head(s) \in {"+", "-"} THEN Tail(s) ELSE s
        neg == s # <<>> /\ Head(s) = "-"
    IN  IF body = <<>> \/ \E i \in 1..Len(body) : ~IsDigit(body[i])
        THEN None
        ELSE Some(IF neg THEN -DigitsValue(body, 0) ELSE DigitsValue(body, 0))

IsWhite(c) == c = " "

RECURSIVE TrimStart(_)
TrimStart(s) ==
    IF s # <<>> /\ IsWhite(Head(s)) THEN TrimStart(Tail(s)) ELSE s

RECURSIVE TrimEnd(_)
TrimEnd(s) ==
    IF s # <<>> /\ IsWhite(s[Len(s)]) THEN TrimEnd(SubSeq(s, 1, Len(s) - 1)) ELSE s

\* str::trim
Trim(s) == TrimEnd(TrimStart(s))

\* str::contains(&str): the empty needle is contained in every string
Contains(h, n) ==
    \E i \in 0..(Len(h) - Len(n)) : SubSeq(h, i + 1, i + Len(n)) = n

RECURSIVE SplitAcc(_, _, _)
SplitAcc(s, sep, cur) ==
    IF s = <<>> THEN <<cur>>
    ELSE IF Head(s) = sep THEN <<cur>> \o SplitAcc(Tail(s), sep, <<>>)
    ELSE SplitAcc(Tail(s), sep, Append(cur, Head(s)))

\* str::split(char)
Split(s, sep) == SplitAcc(s, sep, <<>>)

----------------------------------------------------------------------------
(* MangaMerger *)

\* MangaMerger::new
MergerNew == [seen_ids |-> {}, results |-> <<>>]

\* a try_add that pushes without recording the ID as seen
TryAddNoSeen(m, id, manga) ==
    IF id > 0 /\ id \notin m.seen_ids
    THEN [merger |-> [m EXCEPT !.results = Append(@, manga)], ret |-> TRUE]
    ELSE [merger |-> m, ret |-> FALSE]

\* MangaMerger::try_add
TryAdd(m, id, manga) ==
    IF id > 0 /\ id \notin m.seen_ids
    THEN [merger |-> [seen_ids |-> m.seen_ids \cup {id},
                      results |-> Append(m.results, manga)],
          ret |-> TRUE]
    ELSE [merger |-> m, ret |-> FALSE]

\* an add that marks the ID of a record as seen even when it is not positive
AddMarksRejected(m, manga) ==
    LET p == ParseI64(manga.key)
    IN  IF IsSome(p)
        THEN LET r == TryAdd(m, p.some, manga)
             IN  [merger |-> [r.merger EXCEPT !.seen_ids = @ \cup {p.some}],
                  ret |-> r.ret]
        ELSE [merger |-> m, ret |-> FALSE]

\* MangaMerger::add
Add(m, manga) ==
    LET p == ParseI64(manga.key)
    IN  IF IsSome(p) THEN TryAdd(m, p.some, manga)
        ELSE [merger |-> m, ret |-> FALSE]

\* the loop of MangaMerger::extend: every item is added, in the order of the
\* items; the sequence is halved so that a long one evaluates at small depth
RECURSIVE ExtendLoop(_, _)
ExtendLoop(m, s) ==
    IF s = <<>> THEN m
    ELSE IF Len(s) = 1 THEN Add(m, s[1]).merger
    ELSE LET h == Len(s) \div 2
         IN  CHOOSE r \in {ExtendLoop(first, SubSeq(s, h + 1, Len(s))) :
                               first \in {ExtendLoop(m, SubSeq(s, 1, h))}} : TRUE

\* an extend that stops at the first record add rejects
RECURSIVE ExtendStopsAtReject(_, _)
ExtendStopsAtReject(m, s) ==
    IF s = <<>> THEN m
    ELSE IF Add(m, Head(s)).ret
         THEN ExtendStopsAtReject(Add(m, Head(s)).merger, Tail(s))
         ELSE m

\* MangaMerger::extend
Extend(m, s) == ExtendLoop(m, s)

\* MangaMerger::finish
Finish(m) == m.results

\* MangaMerger::len
MergerLen(m) == Len(m.results)

\* MangaMerger::is_empty
MergerIsEmpty(m) == m.results = <<>>

----------------------------------------------------------------------------
(* The MangaMerger driven by arbitrary calls *)

MaxOffers == 3
MaxExtend == 2
\* the IDs handed to try_add directly
TryIds == {0, 2}

\* a Manga record: key, title and authors; the other fields are defaults
Manga(key, title, authors) == [key |-> key, title |-> title, authors |-> authors]

M(key, title) == Manga(key, title, None)

\* records offered to the merger: the keys "1" and "01" are the same ID
MangaInputs ==
    { M(<<"1">>, "A"), M(<<"0", "1">>, "B"), M(<<"2">>, "D"),
      M(<<"0">>, "E"), M(<<"-", "1">>, "F"), M(<<"x">>, "G") }

RECURSIVE SeqsUpTo(_, _)
SeqsUpTo(S, n) ==
    IF n = 0 THEN {<<>>}
    ELSE LET shorter == SeqsUpTo(S, n - 1)
         IN  shorter \cup {Append(s, x) : s \in {t \in shorter : Len(t) = n - 1}, x \in S}

Offer(id, manga) == [id |-> id, manga |-> manga]

RECURSIVE OffersOf(_)
OffersOf(s) ==
    IF s = <<>> THEN <<>>
    ELSE <<Offer(ParseI64(Head(s).key), Head(s))>> \o OffersOf(Tail(s))

MergerInit ==
    /\ merger = MergerNew
    /\ offers = <<>>
    /\ lastOp = [op |-> "new"]
    /\ finished = None
    /\ defaults = [auth_token |-> None, enhancedMode |-> None, showHiddenContent |-> None]
    /\ pc = "Idle"
    /\ author = <<>>
    /\ page = 1
    /\ loc = [none |-> TRUE]
    /\ requests = [search |-> 0, detail |-> 0, tag |-> 0, hidden |-> 0]
    /\ fuzzyCalls = 0
    /\ stages = <<>>
    /\ result = None
    /\ kw = None
    /\ inv = None
    /\ host = None

MergerTryAdd ==
    \E id \in TryIds, manga \in MangaInputs :
        /\ finished = None
        /\ Len(offers) < MaxOffers
        /\ LET r == TryAdd(merger, id, manga)
           IN  /\ merger' = r.merger
               /\ lastOp' = [op |-> "try_add", id |-> id, manga |-> manga, ret |-> r.ret]
        /\ offers' = Append(offers, Offer(Some(id), manga))
        /\ UNCHANGED <<finished, authorVars, kw, inv, host>>

MergerAdd ==
    \E manga \in MangaInputs :
        /\ finished = None
        /\ Len(offers) < MaxOffers
        /\ LET r == Add(merger, manga)
           IN  /\ merger' = r.merger
               /\ lastOp' = [op |-> "add", manga |-> manga, ret |-> r.ret]
        /\ offers' = offers \o OffersOf(<<manga>>)
        /\ UNCHANGED <<finished, authorVars, kw, inv, host>>

MergerExtend ==
    \E s \in SeqsUpTo(MangaInputs, MaxExtend) :
        /\ finished = None
        /\ s # <<>>
        /\ Len(offers) + Len(s) <= MaxOffers
        /\ merger' = Extend(merger, s)
        /\ lastOp' = [op |-> "extend", arg |-> s]
        /\ offers' = offers \o OffersOf(s)
        /\ UNCHANGED <<finished, authorVars, kw, inv, host>>

MergerFinish ==
    /\ finished = None
    /\ finished' = Some(Finish(merger))
    /\ lastOp' = [op |-> "finish"]
    /\ UNCHANGED <<merger, offers, authorVars, kw, inv, host>>

MergerNext == MergerTryAdd \/ MergerAdd \/ MergerExtend \/ MergerFinish

SpecMerger == MergerInit /\ [][MergerNext]_vars

----------------------------------------------------------------------------
(* Claims about the MangaMerger *)

\* the offers made with a positive ID
PositiveOffers == {i \in 1..Len(offers) : IsSome(offers[i].id) /\ offers[i].id.some > 0}

\* the first offer of each positive ID
FirstOffers ==
    {i \in PositiveOffers :
        \A j \in PositiveOffers : j < i => offers[j].id.some # offers[i].id.some}

RECURSIVE OffersFrom(_, _)
OffersFrom(i, idx) ==
    IF i > Len(offers) THEN <<>>
    ELSE (IF i \in idx THEN <<offers[i]>> ELSE <<>>) \o OffersFrom(i + 1, idx)

\* the first offers of the positive IDs, in the order they were made
KeptOffers == OffersFrom(1, FirstOffers)

\* C1: after any sequence of try_add / add / extend calls the results are the
\* records first offered for each positive ID, one per ID, in the order of
\* their admission, and finish() returns exactly that sequence.
C1_FirstOfferWinsInOrder ==
    /\ Len(merger.results) = Len(KeptOffers)
    /\ \A i \in 1..Len(KeptOffers) : merger.results[i] = KeptOffers[i].manga
    /\ \A i, j \in 1..Len(KeptOffers) :
           i # j => KeptOffers[i].id.some # KeptOffers[j].id.some
    /\ IsSome(finished) => finished.some = merger.results

C1_Witness ==
    /\ IsSome(finished)
    /\ Len(finished.some) = 2
    /\ \E i, j \in PositiveOffers :
           i < j /\ offers[i].id.some = offers[j].id.some
                 /\ offers[i].manga # offers[j].manga

\* add rejects this record in merger state m
Rejected(m, manga) ==
    LET p == ParseI64(manga.key)
    IN  ~IsSome(p) \/ p.some <= 0 \/ p.some \in m.seen_ids

C2_Step ==
    /\ (lastOp'.op = "add" /\ offers' # offers /\ Rejected(merger, lastOp'.manga))
           => (lastOp'.ret = FALSE /\ merger' = merger)
    /\ (lastOp'.op = "extend" /\ offers' # offers)
           => LET s == lastOp'.arg
                  acc == {k \in 1..Len(s) : ~Rejected(merger, s[k])}
                  old == Len(merger.results)
              IN  /\ acc = {} => merger' = merger
                  /\ Len(merger'.results) >= old
                  /\ SubSeq(merger'.results, 1, old) = merger.results
                  /\ \A i \in (old + 1)..Len(merger'.results) :
                         \E k \in acc : s[k] = merger'.results[i]
                  /\ merger'.seen_ids \subseteq
                         merger.seen_ids \cup {ParseI64(s[k].key).some : k \in acc}

\* C2: add and extend reject a record whose ID is already present or whose
\* key does not parse as a positive integer: add returns false and leaves
\* results and seen_ids as they were; extend admits none of those records.
C2_RejectLeavesMergerUnchanged == [][C2_Step]_vars

C2_Witness ==
    /\ lastOp.op = "add"
    /\ lastOp.ret = FALSE
    /\ merger.results # <<>>
    /\ IsSome(ParseI64(lastOp.manga.key))
    /\ ParseI64(lastOp.manga.key).some \in merger.seen_ids
    /\ \E i \in 1..Len(offers) : ~IsSome(offers[i].id)

\* C3: right after extend(s), extending with s again changes nothing, and
\* every positive ID of s has exactly one record admitted under it, also
\* when s holds a record twice.
C3_ExtendIdempotent ==
    lastOp.op = "extend" =>
        LET s == lastOp.arg
            again == Extend(merger, s)
        IN  /\ Finish(again) = Finish(merger)
            /\ again.seen_ids = merger.seen_ids
            /\ Len(KeptOffers) = Len(merger.results)
            /\ \A k \in 1..Len(s) :
                   LET p == ParseI64(s[k].key)
                   IN  (IsSome(p) /\ p.some > 0) =>
                           Cardinality({i \in 1..Len(KeptOffers) :
                                            KeptOffers[i].id.some = p.some}) = 1

C3_Witness ==
    /\ lastOp.op = "extend"
    /\ Len(lastOp.arg) = 2
    /\ lastOp.arg[1] = lastOp.arg[2]
    /\ Len(merger.results) = 1
    /\ merger.results[1] = lastOp.arg[1]

----------------------------------------------------------------------------
(* Settings *)

\* settings::get_token
get_token == IF IsSome(defaults.auth_token) /\ defaults.auth_token.some # <<>>
             THEN defaults.auth_token ELSE None

UnwrapOr(o, d) == IF IsSome(o) THEN o.some ELSE d

\* settings::get_enhanced_mode
\* an enhanced mode that does not look at the token
EnhancedModeIgnoresToken == UnwrapOr(defaults.enhancedMode, FALSE)

get_enhanced_mode == UnwrapOr(defaults.enhancedMode, FALSE) /\ IsSome(get_token)

\* a show_hidden_content that ignores the showHiddenContent toggle
ShowHiddenIgnoresToggle == get_enhanced_mode

\* settings::show_hidden_content
show_hidden_content == get_enhanced_mode /\ UnwrapOr(defaults.showHiddenContent, FALSE)

----------------------------------------------------------------------------
(* Responses of the remote API.  A response is a transport failure, a body  *)
(* that does not deserialize, or an ApiResponse { errno, data }.            *)

Fail == [kind |-> "fail"]
Malformed == [kind |-> "malformed"]
Api(errno, data) == [kind |-> "ok", errno |-> errno, data |-> data]

\* Result<Response> followed by get_json_owned::<ApiResponse<T>>: the
\* ApiResponse when both succeed
JsonOf(resp) == IF resp.kind = "ok" THEN Some(resp) ELSE None

\* net::send_authed_request: the ApiResponse, or an error
send_authed_request(resp) == JsonOf(resp)

SearchItem(id, title, authors) == [id |-> id, title |-> title, authors |-> authors]
FilterItem(id, name, authors) == [id |-> id, name |-> name, authors |-> authors]
AuthorTag(tag_id, tag_name) == [tag_id |-> tag_id, tag_name |-> tag_name]

\* From<SearchItem> for Manga
MangaOfSearchItem(item) == Manga(ToString(item.id), item.title, item.authors)

\* From<FilterItem> for Manga
MangaOfFilterItem(item) == Manga(ToString(item.id), item.name, item.authors)

\* Iterator::map
MapSeq(Op(_), s) == [i \in 1..Len(s) |-> Op(s[i])]

RECURSIVE Concat(_)
Concat(ss) == IF ss = <<>> THEN <<>> ELSE Head(ss) \o Concat(Tail(ss))

InSeq(x, s) == \E i \in 1..Len(s) : s[i] = x

----------------------------------------------------------------------------
(* Search Matcher *)

\* classify: the sub-names of the author field are its "/"-separated parts,
\* trimmed; empty sub-names never match
Classify(field, target) ==
    LET parts == Split(field, "/")
        subs == {Trim(parts[i]) : i \in 1..Len(parts)} \ {<<>>}
    IN  IF \E s \in subs : s = Trim(target) THEN "Strict"
        ELSE IF \E s \in subs : Contains(s, target) \/ Contains(target, s)
             THEN "Partial"
             ELSE "None"

\* SearchItem::matches_author and FilterItem::matches_author
matches_author(item, target) == Classify(UnwrapOr(item.authors, <<>>), target) # "None"

\* one step of the filter_map closure of extract_author_tags_from_detail
ExtractStep(acc, tag, target_author) ==
    IF ~IsSome(tag.tag_name) \/ ~IsSome(tag.tag_id) THEN acc
    ELSE IF tag.tag_id.some <= 0 THEN acc
    ELSE IF Trim(tag.tag_name.some) = <<>> THEN acc
    ELSE LET name == tag.tag_name.some
             tid == tag.tag_id.some
         IN  IF name = target_author /\ tid \notin acc.seen_strict
             THEN [acc EXCEPT !.seen_strict = @ \cup {tid},
                              !.strict_ids = Append(@, tid)]
             ELSE IF (Contains(name, target_author) \/ Contains(target_author, name))
                     /\ tid \notin acc.seen_partial
             THEN [acc EXCEPT !.seen_partial = @ \cup {tid},
                              !.partial_ids = Append(@, tid)]
             ELSE acc

RECURSIVE ExtractFold(_, _, _)
ExtractFold(acc, tags, target_author) ==
    IF tags = <<>> THEN acc
    ELSE ExtractFold(ExtractStep(acc, Head(tags), target_author), Tail(tags), target_author)

\* extract_author_tags_from_detail
extract_author_tags_from_detail(detail, target_author) ==
    IF ~IsSome(detail.authors)
    THEN [strict_ids |-> <<>>, partial_ids |-> <<>>, match_type |-> "None"]
    ELSE LET acc == ExtractFold([seen_strict |-> {}, seen_partial |-> {},
                                 strict_ids |-> <<>>, partial_ids |-> <<>>],
                                detail.authors.some, target_author)
         IN  [strict_ids |-> acc.strict_ids,
              partial_ids |-> acc.partial_ids,
              match_type |-> IF acc.strict_ids # <<>> THEN "Strict"
                             ELSE IF acc.partial_ids # <<>> THEN "Partial"
                             ELSE "None"]

----------------------------------------------------------------------------
(* Decomposed helpers of the author search.  The state the callers pass by  *)
(* &mut is the record st = [seen_authors, strict_ids, partial_ids,         *)
(* strict_manga]; every helper returns the Result it returns in the code    *)
(* (err) with the updated st and the requests it issued.                    *)

\* the detail of a detail response, when the response validates
DetailOf(resp) ==
    LET j == JsonOf(resp)
    IN  IF IsSome(j) /\ IsSome(j.some.data) /\ IsSome(j.some.data.some.data)
        THEN j.some.data.some.data
        ELSE None

\* a loop body without the seen_authors check
CollectStepNoSeenCheck(acc, candidate, response_result, target_author) ==
    LET author_key == UnwrapOr(candidate.authors, <<>>)
        detail == DetailOf(response_result)
    IN  IF IsSome(detail)
        THEN LET r == extract_author_tags_from_detail(detail.some, target_author)
                 st1 == [acc.st EXCEPT
                            !.seen_authors = Append(@, author_key),
                            !.strict_ids = @ \o r.strict_ids,
                            !.partial_ids = @ \o r.partial_ids]
             IN  IF r.match_type = "Strict"
                 THEN [matched |-> Append(acc.matched, candidate),
                       st |-> [st1 EXCEPT !.strict_manga =
                                   Append(@, MangaOfSearchItem(candidate))]]
                 ELSE IF r.match_type = "Partial"
                 THEN [matched |-> Append(acc.matched, candidate), st |-> st1]
                 ELSE [matched |-> acc.matched, st |-> st1]
        ELSE acc

\* the body of the response loop of collect_tags_from_search for candidate i
CollectStep(acc, candidate, response_result, target_author) ==
    LET author_key == UnwrapOr(candidate.authors, <<>>)
        detail == DetailOf(response_result)
    IN  IF InSeq(author_key, acc.st.seen_authors)
        THEN [acc EXCEPT !.matched = Append(@, candidate)]
        ELSE IF IsSome(detail)
        THEN LET r == extract_author_tags_from_detail(detail.some, target_author)
                 st1 == [acc.st EXCEPT
                            !.seen_authors = Append(@, author_key),
                            !.strict_ids = @ \o r.strict_ids,
                            !.partial_ids = @ \o r.partial_ids]
             IN  IF r.match_type = "Strict"
                 THEN [matched |-> Append(acc.matched, candidate),
                       st |-> [st1 EXCEPT !.strict_manga =
                                   Append(@, MangaOfSearchItem(candidate))]]
                 ELSE IF r.match_type = "Partial"
                 THEN [matched |-> Append(acc.matched, candidate), st |-> st1]
                 ELSE [matched |-> acc.matched, st |-> st1]
        ELSE acc

\* a response loop that gives up at the first response that does not validate
RECURSIVE CollectLoopStopsAtFailure(_, _, _, _, _)
CollectLoopStopsAtFailure(acc, i, candidates, responses, target_author) ==
    IF i > Len(responses) THEN acc
    ELSE IF ~IsSome(DetailOf(responses[i])) THEN acc
    ELSE CollectLoopStopsAtFailure(
             CollectStep(acc, candidates[i], responses[i], target_author),
             i + 1, candidates, responses, target_author)

\* lines 334-371: the loop over the responses, in the order of the candidates
RECURSIVE CollectLoop(_, _, _, _, _)
CollectLoop(acc, i, candidates, responses, target_author) ==
    IF i > Len(responses) THEN acc
    ELSE CollectLoop(CollectStep(acc, candidates[i], responses[i], target_author),
                     i + 1, candidates, responses, target_author)

\* Iterator::filter
RECURSIVE FilterMatching(_, _)
FilterMatching(list, target_author) ==
    IF list = <<>> THEN <<>>
    ELSE (IF matches_author(Head(list), target_author) THEN <<Head(list)>> ELSE <<>>)
         \o FilterMatching(Tail(list), target_author)

\* the candidates collect_tags_from_search verifies for a search response
CandidatesOf(search_resp, target_author) ==
    LET response == send_authed_request(search_resp)
    IN  IF IsSome(response) /\ IsSome(response.some.data)
        THEN FilterMatching(response.some.data.some.list, target_author)
        ELSE <<>>

\* a collect_tags_from_search that propagates a failed search request
CollectFailsOnSearchFailure(search_resp, detail_resps, target_author, st) ==
    LET candidates == CandidatesOf(search_resp, target_author)
        acc == CollectLoop([matched |-> <<>>, st |-> st], 1,
                           candidates, detail_resps, target_author)
    IN  [err |-> ~IsSome(send_authed_request(search_resp)),
         matched |-> acc.matched, st |-> acc.st,
         search |-> 1, detail |-> Len(candidates)]

\* collect_tags_from_search: search_resp answers the keyword search,
\* detail_resps[i] the detail request of candidate i
collect_tags_from_search(search_resp, detail_resps, target_author, st) ==
    LET candidates == CandidatesOf(search_resp, target_author)
        acc == CollectLoop([matched |-> <<>>, st |-> st], 1,
                           candidates, detail_resps, target_author)
    IN  [err |-> FALSE, matched |-> acc.matched, st |-> acc.st,
         search |-> 1, detail |-> Len(candidates)]

\* str::chars().take(n)
Take(s, n) == SubSeq(s, 1, IF Len(s) < n THEN Len(s) ELSE n)

\* the characters of the model that take three bytes in UTF-8: the symbols
\* U+25CE and U+25EF and two CJK characters; every other one is ASCII
MultiByte == {"U+25CE", "U+25EF", "U+674E", "U+56DB"}

RECURSIVE ByteLen(_)
ByteLen(s) ==
    IF s = <<>> THEN 0
    ELSE (IF Head(s) \in MultiByte THEN 3 ELSE 1) + ByteLen(Tail(s))

\* terms whose short_core is decided by the length in bytes
FuzzyCoresByBytes(author_) ==
    LET core_name == author_
        short_core == IF ByteLen(core_name) >= 4 THEN Take(core_name, 2) ELSE core_name
    IN  <<core_name, short_core>>

\* the terms try_fuzzy_author_search tries, in order
FuzzyCores(author_) ==
    LET core_name == author_
        short_core == IF Len(core_name) >= 4 THEN Take(core_name, 2) ELSE core_name
    IN  <<core_name, short_core>>

\* a loop that also tries a term identical to the author
RECURSIVE FuzzyLoopTriesAuthor(_, _, _, _, _)
FuzzyLoopTriesAuthor(acc, k, cores, resps, author_) ==
    IF k > Len(cores) \/ acc.err \/ acc.stop THEN acc
    ELSE LET core == cores[k]
         IN  IF core = <<>> \/ acc.st.strict_ids # <<>> \/ acc.st.partial_ids # <<>>
             THEN FuzzyLoopTriesAuthor(acc, k + 1, cores, resps, author_)
             ELSE LET r == collect_tags_from_search(resps[k].search, resps[k].details,
                                                    author_, acc.st)
                      acc1 == [err |-> r.err,
                               matched |-> acc.matched \o r.matched,
                               st |-> r.st,
                               search |-> acc.search + r.search,
                               detail |-> acc.detail + r.detail,
                               queries |-> Append(acc.queries, core),
                               stop |-> r.st.strict_ids # <<>> \/ r.st.partial_ids # <<>>]
                  IN  FuzzyLoopTriesAuthor(acc1, k + 1, cores, resps, author_)

\* the loop of try_fuzzy_author_search over the remaining terms; resps[k]
\* holds the responses the k-th term would get
RECURSIVE FuzzyLoop(_, _, _, _, _)
FuzzyLoop(acc, k, cores, resps, author_) ==
    IF k > Len(cores) \/ acc.err \/ acc.stop THEN acc
    ELSE LET core == cores[k]
         IN  IF core = <<>> \/ core = author_
                \/ acc.st.strict_ids # <<>> \/ acc.st.partial_ids # <<>>
             THEN FuzzyLoop(acc, k + 1, cores, resps, author_)
             ELSE LET r == collect_tags_from_search(resps[k].search, resps[k].details,
                                                    author_, acc.st)
                      acc1 == [err |-> r.err,
                               matched |-> acc.matched \o r.matched,
                               st |-> r.st,
                               search |-> acc.search + r.search,
                               detail |-> acc.detail + r.detail,
                               queries |-> Append(acc.queries, core),
                               stop |-> r.st.strict_ids # <<>> \/ r.st.partial_ids # <<>>]
                  IN  FuzzyLoop(acc1, k + 1, cores, resps, author_)

\* try_fuzzy_author_search
try_fuzzy_author_search(author_, resps, st) ==
    FuzzyLoop([err |-> FALSE, matched |-> <<>>, st |-> st, search |-> 0, detail |-> 0,
               queries |-> <<>>, stop |-> FALSE],
              1, FuzzyCores(author_), resps, author_)

\* the items of one tag response: the comic_list when the response validates
ComicListOf(resp) ==
    LET j == JsonOf(resp)
    IN  IF IsSome(j) /\ IsSome(j.some.data) THEN j.some.data.some.comic_list ELSE <<>>

\* fetch_manga_by_tags: tag_resps[i] answers the request of tag_ids[i]
fetch_manga_by_tags(tag_ids, tag_resps) ==
    IF tag_ids = <<>>
    THEN [err |-> FALSE, items |-> <<>>, total |-> 0, tag |-> 0]
    ELSE LET items == Concat(MapSeq(ComicListOf, tag_resps))
         IN  [err |-> FALSE, items |-> items, total |-> Len(items), tag |-> Len(tag_ids)]

\* the pages one batch of the HiddenContentScanner requests
HiddenBatchPages == 3

\* HiddenContentScanner::next: the items of the successful pages of a batch
ScannerBatch(page_resps) == Concat(MapSeq(ComicListOf, page_resps))

\* an is_match that compares the comma-separated names as they are
HiddenIsMatchNoTrim(item, target_author, strict_mode) ==
    IF strict_mode
    THEN IF IsSome(item.authors)
         THEN LET toks == Split(item.authors.some, ",")
              IN  \E i \in 1..Len(toks) : toks[i] = target_author
         ELSE FALSE
    ELSE matches_author(item, target_author)

\* is_match of scan_hidden_content
HiddenIsMatch(item, target_author, strict_mode) ==
    IF strict_mode
    THEN IF IsSome(item.authors)
         THEN LET toks == Split(item.authors.some, ",")
              IN  \E i \in 1..Len(toks) : Trim(toks[i]) = target_author
         ELSE FALSE
    ELSE matches_author(item, target_author)

\* the inner loop of scan_hidden_content over the items of one batch
RECURSIVE ScanItemsLoop(_, _, _, _)
ScanItemsLoop(acc, items, target_author, strict_mode) ==
    IF items = <<>> THEN acc
    ELSE LET item == Head(items)
             acc1 == IF HiddenIsMatch(item, target_author, strict_mode)
                        /\ item.id \notin acc.seen_ids
                     THEN [seen_ids |-> acc.seen_ids \cup {item.id},
                           found |-> Append(acc.found, MangaOfFilterItem(item)),
                           any |-> TRUE]
                     ELSE acc
         IN  ScanItemsLoop(acc1, Tail(items), target_author, strict_mode)

\* a batch loop that never sees batch_found_any set
ScanBatchNeverStops(found, seen_ids, items, target_author, strict_mode) ==
    [ScanItemsLoop([seen_ids |-> seen_ids, found |-> found, any |-> FALSE],
                   items, target_author, strict_mode) EXCEPT !.any = FALSE]

\* one iteration of the batch loop of scan_hidden_content
ScanBatch(found, seen_ids, items, target_author, strict_mode) ==
    ScanItemsLoop([seen_ids |-> seen_ids, found |-> found, any |-> FALSE],
                  items, target_author, strict_mode)

\* a blank check that forgets to trim
BlankNoTrim(author_) == author_ = <<>>

\* line 210: author.trim().is_empty()
BlankAuthor(author_) == Trim(author_) = <<>>

\* a fallback gate that looks at the tag IDs only
NeedsFallbackIdsOnly(direct_ids, keyword_manga) == direct_ids = <<>>

\* line 236: direct_ids.is_empty() && keyword_manga.is_empty()
NeedsFallback(direct_ids, keyword_manga) == direct_ids = <<>> /\ keyword_manga = <<>>

\* the fixed page size of the tag queries
TagPageSize == 100

DefaultPage == [entries |-> <<>>, has_next_page |-> FALSE]

Ok(v) == [ok |-> v]
Err == [err |-> TRUE]

\* a strict-mode merge that also offers every keyword candidate
StrictModeKeepsKeyword(tag_manga, strict_manga, keyword_manga) ==
    MapSeq(MangaOfFilterItem, tag_manga) \o strict_manga
        \o MapSeq(MangaOfSearchItem, keyword_manga)

\* the records a strict-mode merge extends the merger with
StrictModeRecords(tag_manga, strict_manga, keyword_manga) ==
    MapSeq(MangaOfFilterItem, tag_manga) \o strict_manga

\* the records a fallback-mode merge extends the merger with
FallbackModeRecords(tag_manga, strict_manga, keyword_manga) ==
    MapSeq(MangaOfFilterItem, tag_manga) \o MapSeq(MangaOfSearchItem, keyword_manga)

\* a merge whose has_next_page is also true when the merged page is full
MergeAndPageFullPage(m, exact_match_found, tag_manga, tag_total, strict_manga, keyword_manga) ==
    LET m1 == IF exact_match_found
              THEN Extend(m, StrictModeRecords(tag_manga, strict_manga, keyword_manga))
              ELSE Extend(m, FallbackModeRecords(tag_manga, strict_manga, keyword_manga))
        has_next == tag_total >= TagPageSize \/ MergerLen(m1) >= TagPageSize
    IN  [merger |-> m1,
         page |-> IF ~MergerIsEmpty(m1)
                  THEN [entries |-> Finish(m1), has_next_page |-> has_next]
                  ELSE DefaultPage]

\* lines 262-291 of search_by_author: the merge and the page it returns
MergeAndPage(m, exact_match_found, tag_manga, tag_total, strict_manga, keyword_manga) ==
    LET m1 == IF exact_match_found
              THEN Extend(m, StrictModeRecords(tag_manga, strict_manga, keyword_manga))
              ELSE Extend(m, FallbackModeRecords(tag_manga, strict_manga, keyword_manga))
        has_next == IF tag_total > 0 THEN tag_total >= TagPageSize
                    ELSE MergerLen(m1) >= TagPageSize
    IN  [merger |-> m1,
         page |-> IF ~MergerIsEmpty(m1)
                  THEN [entries |-> Finish(m1), has_next_page |-> has_next]
                  ELSE DefaultPage]

----------------------------------------------------------------------------
(* The inputs of one author search *)

\* the longest list a keyword search returns
MaxList == 2
\* the batches the scanner yields before it is exhausted
MaxBatches == 2

sAB == <<"a", "b">>
sCD == <<"c", "d">>
sABCD == <<"a", "b", "c", "d">>

\* the calls of search_by_author: an empty, a blank, a two-character and a
\* four-character author, on the first or a later page
AuthorCalls ==
    { [author |-> <<>>, page |-> 1], [author |-> <<" ">>, page |-> 2],
      [author |-> sAB, page |-> 1], [author |-> sABCD, page |-> 2] }

\* logged in with hidden content on; logged in with it off; the toggles on
\* but no token stored
SettingsInputs ==
    { [auth_token |-> Some(<<"t">>), enhancedMode |-> Some(TRUE), showHiddenContent |-> Some(TRUE)],
      [auth_token |-> Some(<<"t">>), enhancedMode |-> Some(TRUE), showHiddenContent |-> None],
      [auth_token |-> Some(<<>>), enhancedMode |-> Some(TRUE), showHiddenContent |-> Some(TRUE)] }

\* the items a keyword search may list: K3 has the author string of K1 and
\* an ID that is not positive
SearchItems ==
    { SearchItem(1, "K1", Some(sAB)),
      SearchItem(2, "K2", Some(<<"a", "b", "/", "c", "d">>)),
      SearchItem(0, "K3", Some(sAB)) }

SearchOutcomes ==
    {Fail, Malformed, Api(1, None)}
        \cup {Api(0, Some([list |-> l])) : l \in SeqsUpTo(SearchItems, MaxList)}

\* the author lists a detail payload may carry
DetailAuthors ==
    { <<AuthorTag(Some(10), Some(sAB))>>,
      <<AuthorTag(Some(11), Some(sABCD)), AuthorTag(Some(10), Some(sAB)),
        AuthorTag(Some(10), Some(sAB))>>,
      <<AuthorTag(None, Some(sAB)), AuthorTag(Some(13), None),
        AuthorTag(Some(0), Some(sAB)), AuthorTag(Some(12), Some(sCD)),
        AuthorTag(Some(12), Some(sCD))>> }

DetailOutcomes ==
    {Fail, Malformed, Api(1, None)}
        \cup {Api(0, Some([data |-> Some([authors |-> Some(a)])])) : a \in DetailAuthors}

\* the items a tag query may list: F1 has the ID of K1
FilterItems == <<FilterItem(1, "F1", Some(sAB)), FilterItem(5, "F2", Some(sAB))>>

TagOutcomes ==
    { Fail, Api(1, None),
      Api(0, Some([comic_list |-> <<FilterItems[2]>>])),
      Api(0, Some([comic_list |-> <<FilterItems[2], FilterItems[1]>>])) }

\* the items a hidden-content page may list: H2 has the ID of K1 and F1
HiddenItems ==
    <<FilterItem(7, "H1", Some(sAB)),
      FilterItem(1, "H2", Some(<<"a", "b", ",", "c", "d">>)),
      FilterItem(8, "H3", None)>>

HiddenPageOutcomes ==
    { Fail, Malformed,
      Api(0, Some([comic_list |-> <<HiddenItems[1]>>])),
      Api(0, Some([comic_list |-> <<HiddenItems[2], HiddenItems[3]>>])) }

\* what one batch of the scanner can yield: every combination of page outcomes
HiddenBatches == {ScannerBatch(p) : p \in [1..HiddenBatchPages -> HiddenPageOutcomes]}

NoRequests == [search |-> 0, detail |-> 0, tag |-> 0, hidden |-> 0]

\* the locals of search_by_author as declared at lines 213-216
LocInit ==
    [strict_ids |-> <<>>, partial_ids |-> <<>>, seen_authors |-> <<>>,
     strict_manga |-> <<>>, keyword_manga |-> <<>>, exact_match_found |-> FALSE,
     final_tag_ids |-> <<>>, tag_manga |-> <<>>, tag_total |-> 0,
     found_manga |-> <<>>, batches |-> 0, fuzzy_queries |-> <<>>]

AuthorInit ==
    /\ merger = MergerNew
    /\ offers = <<>>
    /\ lastOp = [op |-> "new"]
    /\ finished = None
    /\ defaults \in SettingsInputs
    /\ pc = "Start"
    /\ \E call \in AuthorCalls : author = call.author /\ page = call.page
    /\ loc = LocInit
    /\ requests = NoRequests
    /\ fuzzyCalls = 0
    /\ stages = <<>>
    /\ result = None
    /\ kw = None
    /\ inv = None
    /\ host = None

\* lines 209-219: the blank check and the declaration of the locals
Enter ==
    /\ pc = "Start"
    /\ IF BlankAuthor(author)
       THEN /\ result' = Ok(DefaultPage)
            /\ pc' = "Done"
            /\ stages' = Append(stages, "Done")
       ELSE /\ pc' = "Direct"
            /\ stages' = Append(stages, "Direct")
            /\ UNCHANGED result
    /\ UNCHANGED <<kw, inv, host, mergerVars, defaults, author, page, loc, requests, fuzzyCalls>>

\* lines 221-250, the direct stage: collect_tags_from_search with the author as
\* keyword, the strict priority decision, and whether the fallback is needed
Direct ==
    /\ pc = "Direct"
    /\ \E search_resp \in SearchOutcomes :
       \E detail_resps \in
              [1..Len(CandidatesOf(search_resp, author)) -> DetailOutcomes] :
       \E r \in {collect_tags_from_search(search_resp, detail_resps, author,
                     [seen_authors |-> loc.seen_authors, strict_ids |-> loc.strict_ids,
                      partial_ids |-> loc.partial_ids, strict_manga |-> loc.strict_manga])} :
          LET exact == r.st.strict_ids # <<>>
              direct_ids == IF exact THEN r.st.strict_ids ELSE r.st.partial_ids
              fallback == NeedsFallback(direct_ids, r.matched)
          IN  /\ requests' = [requests EXCEPT !.search = @ + r.search,
                                              !.detail = @ + r.detail]
              /\ IF r.err
                 THEN /\ result' = Err
                      /\ pc' = "Done"
                      /\ stages' = Append(stages, "Done")
                      /\ UNCHANGED loc
                 ELSE /\ loc' = [loc EXCEPT !.seen_authors = r.st.seen_authors,
                                            !.strict_ids = r.st.strict_ids,
                                            !.partial_ids = r.st.partial_ids,
                                            !.strict_manga = r.st.strict_manga,
                                            !.keyword_manga = r.matched,
                                            !.exact_match_found = exact,
                                            !.final_tag_ids = direct_ids]
                      /\ pc' = IF fallback THEN "FuzzyFallback" ELSE "TagFetch"
                      /\ stages' = Append(stages, pc')
                      /\ UNCHANGED result
    /\ UNCHANGED <<kw, inv, host, mergerVars, defaults, author, page, fuzzyCalls>>

\* the responses of the terms the fallback can query; a term it skips gets none
FuzzyResponses(author_) ==
    LET cores == FuzzyCores(author_)
        one(k) == IF cores[k] = <<>> \/ cores[k] = author_
                  THEN {[search |-> Fail, details |-> <<>>]}
                  ELSE UNION {{[search |-> s, details |-> d] :
                                  d \in [1..Len(CandidatesOf(s, author_)) -> DetailOutcomes]} :
                              s \in SearchOutcomes}
    IN  {<<a, b>> : a \in one(1), b \in one(2)}

\* lines 236-247, the fuzzy fallback: try_fuzzy_author_search with fresh ID lists
FuzzyFallback ==
    /\ pc = "FuzzyFallback"
    /\ \E resps \in FuzzyResponses(author) :
       \E r \in {try_fuzzy_author_search(author, resps,
                     [seen_authors |-> loc.seen_authors, strict_ids |-> <<>>,
                      partial_ids |-> <<>>, strict_manga |-> loc.strict_manga])} :
              /\ requests' = [requests EXCEPT !.search = @ + r.search,
                                              !.detail = @ + r.detail]
              /\ IF r.err
                 THEN /\ result' = Err
                      /\ pc' = "Done"
                      /\ UNCHANGED loc
                 ELSE /\ loc' = [loc EXCEPT !.seen_authors = r.st.seen_authors,
                                            !.strict_manga = r.st.strict_manga,
                                            !.keyword_manga = @ \o r.matched,
                                            !.fuzzy_queries = r.queries,
                                            !.final_tag_ids =
                                                IF r.st.strict_ids # <<>>
                                                THEN r.st.strict_ids
                                                ELSE r.st.partial_ids]
                      /\ pc' = "TagFetch"
                      /\ UNCHANGED result
    /\ fuzzyCalls' = fuzzyCalls + 1
    /\ stages' = Append(stages, pc')
    /\ UNCHANGED <<kw, inv, host, mergerVars, defaults, author, page>>

\* lines 252-257: fetch_manga_by_tags, the new merger, and the hidden gate.
\* The ID lists were moved into final_tag_ids, which is consumed here, and
\* seen_authors is not read again: they leave the state.
TagFetch ==
    /\ pc = "TagFetch"
    /\ \E tag_resps \in [1..Len(loc.final_tag_ids) -> TagOutcomes] :
       \E r \in {fetch_manga_by_tags(loc.final_tag_ids, tag_resps)} :
              /\ requests' = [requests EXCEPT !.tag = @ + r.tag]
              /\ IF r.err
                 THEN /\ result' = Err
                      /\ pc' = "Done"
                      /\ UNCHANGED <<loc, merger>>
                 ELSE /\ loc' = [loc EXCEPT !.tag_manga = r.items, !.tag_total = r.total,
                                            !.strict_ids = <<>>, !.partial_ids = <<>>,
                                            !.seen_authors = <<>>, !.final_tag_ids = <<>>]
                      /\ merger' = MergerNew
                      /\ pc' = IF show_hidden_content THEN "HiddenScan" ELSE "Merge"
                      /\ UNCHANGED result
    /\ stages' = Append(stages, pc')
    /\ UNCHANGED <<kw, inv, host, offers, lastOp, finished, defaults, author, page, fuzzyCalls>>

\* lines 258-259 and 447-472: the scanner yields a batch; a batch with a match
\* ends the scan and its matches are handed to the merger
HiddenScanBatch ==
    /\ pc = "HiddenScan"
    /\ loc.batches < MaxBatches
    /\ \E items \in HiddenBatches :
       \E r \in {ScanBatch(loc.found_manga, merger.seen_ids, items,
                           author, loc.exact_match_found)} :
              /\ loc' = [loc EXCEPT !.found_manga = r.found, !.batches = @ + 1]
              /\ IF r.any
                 THEN /\ merger' = Extend([merger EXCEPT !.seen_ids = r.seen_ids], r.found)
                      /\ pc' = "Merge"
                      /\ stages' = Append(stages, "Merge")
                 ELSE /\ merger' = [merger EXCEPT !.seen_ids = r.seen_ids]
                      /\ UNCHANGED <<pc, stages>>
    /\ requests' = [requests EXCEPT !.hidden = @ + HiddenBatchPages]
    /\ UNCHANGED <<kw, inv, host, offers, lastOp, finished, defaults, author, page, fuzzyCalls, result>>

\* lines 258-259 and 447-473: the scanner is exhausted
HiddenScanEnd ==
    /\ pc = "HiddenScan"
    /\ merger' = Extend(merger, loc.found_manga)
    /\ pc' = "Merge"
    /\ stages' = Append(stages, "Merge")
    /\ UNCHANGED <<kw, inv, host, offers, lastOp, finished, defaults, author, page, loc, requests,
                   fuzzyCalls, result>>

\* lines 262-291: the merge by strict priority and the page returned
Merge ==
    /\ pc = "Merge"
    /\ \E r \in {MergeAndPage(merger, loc.exact_match_found, loc.tag_manga,
                              loc.tag_total, loc.strict_manga, loc.keyword_manga)} :
           /\ merger' = r.merger
           /\ result' = Ok(r.page)
    /\ pc' = "Done"
    /\ stages' = Append(stages, "Done")
    /\ UNCHANGED <<kw, inv, host, offers, lastOp, finished, defaults, author, page, loc, requests,
                   fuzzyCalls>>

AuthorNext ==
    \/ Enter
    \/ Direct
    \/ FuzzyFallback
    \/ TagFetch
    \/ HiddenScanBatch
    \/ HiddenScanEnd
    \/ Merge

SpecAuthor == AuthorInit /\ [][AuthorNext]_vars

\* the call has returned
Finished == pc = "Done"

\* The call runs to completion: until it has returned it takes another step.
\* This is WF_vars(AuthorNext) written out: AuthorNext is enabled in every
\* stage before Done and in none after, and under [][AuthorNext]_vars a step
\* that changes vars is a step of AuthorNext.
RunsToCompletion == []<>Finished \/ []<><<TRUE>>_vars

FairSpecAuthor == SpecAuthor /\ WF_vars(Enter) /\ RunsToCompletion

----------------------------------------------------------------------------
(* Claims about search_by_author *)


Entries == result.ok.entries

SeqSet(s) == {s[i] : i \in 1..Len(s)}

\* C4: an empty or whitespace-only author returns the empty page with
\* has_next_page = false and no request of any kind is issued, on any page.
C4_BlankAuthorNoNetwork ==
    Trim(author) = <<>> =>
        /\ requests = NoRequests
        /\ pc \in {"Start", "Done"}
        /\ Finished => result = Ok([entries |-> <<>>, has_next_page |-> FALSE])

C4_Witness ==
    /\ Finished
    /\ author = <<" ">>
    /\ page = 2
    /\ result = Ok([entries |-> <<>>, has_next_page |-> FALSE])

\* C5: whatever the requests of the keyword, detail, tag and hidden stages
\* return, search_by_author returns Ok; when nothing was gathered the page
\* is empty with has_next_page = false.
C5_AlwaysOk ==
    /\ result # Err
    /\ Finished =>
           /\ "ok" \in DOMAIN result
           /\ (loc.tag_manga = <<>> /\ loc.keyword_manga = <<>> /\ loc.found_manga = <<>>)
                  => result = Ok([entries |-> <<>>, has_next_page |-> FALSE])

C5_Witness ==
    /\ Finished
    /\ Trim(author) # <<>>
    /\ requests.search = 2
    /\ requests.detail = 0
    /\ requests.hidden = HiddenBatchPages * MaxBatches
    /\ result = Ok([entries |-> <<>>, has_next_page |-> FALSE])

C6_Step ==
    /\ (pc = "Direct" /\ pc' # pc) =>
           LET empty == /\ loc'.strict_ids = <<>>
                        /\ loc'.partial_ids = <<>>
                        /\ loc'.keyword_manga = <<>>
           IN  /\ empty => pc' = "FuzzyFallback"
               /\ ~empty => pc' = "TagFetch"
    /\ pc' = "FuzzyFallback" => (pc = "Direct" \/ pc = "FuzzyFallback")
    /\ pc = "FuzzyFallback" => (fuzzyCalls' = 1 /\ pc' = "TagFetch")
    /\ pc # "FuzzyFallback" => fuzzyCalls' = fuzzyCalls

\* C6: the fuzzy fallback is invoked exactly once when the direct stage left
\* no strict tag ID, no partial tag ID and no matched candidate, and is not
\* invoked when the direct stage left any of them.
C6_FallbackExactlyWhenEmpty ==
    /\ [][C6_Step]_vars
    /\ [](Finished /\ Trim(author) # <<>> =>
             fuzzyCalls = (IF InSeq("FuzzyFallback", stages) THEN 1 ELSE 0))

C6_Witness ==
    /\ Finished
    /\ fuzzyCalls = 1
    /\ loc.fuzzy_queries = <<sAB>>
    /\ loc.keyword_manga # <<>>

\* the stage that may follow each stage
NextStages(s) ==
    CASE s = "Direct" -> {"FuzzyFallback", "TagFetch"}
      [] s = "FuzzyFallback" -> {"TagFetch"}
      [] s = "TagFetch" -> {"HiddenScan", "Merge"}
      [] s = "HiddenScan" -> {"Merge"}
      [] s = "Merge" -> {"Done"}
      [] OTHER -> {}

C7_Order ==
    Trim(author) # <<>> =>
        /\ stages # <<>> => (stages[1] = "Direct" /\ pc = stages[Len(stages)])
        /\ \A i \in 1..(Len(stages) - 1) : stages[i + 1] \in NextStages(stages[i])
        /\ \A i, j \in 1..Len(stages) : i # j => stages[i] # stages[j]
        /\ InSeq("HiddenScan", stages) =>
               /\ defaults.showHiddenContent = Some(TRUE)
               /\ defaults.enhancedMode = Some(TRUE)
               /\ IsSome(defaults.auth_token) /\ defaults.auth_token.some # <<>>

IdsOf(items) == {items[i].id : i \in 1..Len(items)}

\* the IDs of the hidden items the scan returned
FoundIds == {ParseI64(loc.found_manga[i].key).some : i \in 1..Len(loc.found_manga)}

\* C8: with a strict tag ID found, the entries are tag-fetch results,
\* hidden-scan matches or candidates classified Strict; a candidate that is
\* not among the strict ones is listed only if tag fetch or the hidden scan
\* returned its ID.
C8_StrictModeDropsPartial ==
    (Finished /\ "ok" \in DOMAIN result /\ loc.exact_match_found) =>
        /\ \A e \in SeqSet(Entries) :
               \/ e \in SeqSet(MapSeq(MangaOfFilterItem, loc.tag_manga))
               \/ e \in SeqSet(loc.found_manga)
               \/ e \in SeqSet(loc.strict_manga)
        /\ \A c \in SeqSet(loc.keyword_manga) :
               (/\ MangaOfSearchItem(c) \notin SeqSet(loc.strict_manga)
                /\ \E e \in SeqSet(Entries) : e.key = ToString(c.id))
                   => c.id \in IdsOf(loc.tag_manga) \cup FoundIds

C8_Witness ==
    /\ Finished
    /\ loc.exact_match_found
    /\ \E c \in SeqSet(loc.keyword_manga) :
           /\ c.id > 0
           /\ MangaOfSearchItem(c) \notin SeqSet(loc.strict_manga)
           /\ \A e \in SeqSet(Entries) : e.key # ToString(c.id)
    /\ \E e \in SeqSet(Entries) : e \in SeqSet(loc.strict_manga)
    /\ \E e \in SeqSet(Entries) : e \in SeqSet(MapSeq(MangaOfFilterItem, loc.tag_manga))

\* the positions of the entries with this key
EntriesWithKey(key) == {i \in 1..Len(Entries) : Entries[i].key = key}

\* C9: without a strict tag ID, every keyword-matched candidate with a
\* positive ID, from the direct stage and from the fallback, is listed
\* exactly once, and no candidate's own record precedes a tag-fetch result.
C9_FallbackModeKeepsCandidates ==
    (Finished /\ "ok" \in DOMAIN result /\ ~loc.exact_match_found) =>
        /\ \A c \in SeqSet(loc.keyword_manga) :
               c.id > 0 => Cardinality(EntriesWithKey(ToString(c.id))) = 1
        /\ \A i, j \in 1..Len(Entries) :
               (/\ Entries[i] \in SeqSet(MapSeq(MangaOfSearchItem, loc.keyword_manga))
                /\ Entries[j] \in SeqSet(MapSeq(MangaOfFilterItem, loc.tag_manga)))
                   => j < i

\* C10: with hidden content shown, every item the hidden scan matched is in
\* the final entries, before every tag-fetch result.
C10_HiddenMatchesListedFirst ==
    (Finished /\ "ok" \in DOMAIN result /\ InSeq("HiddenScan", stages)) =>
        /\ \A h \in SeqSet(loc.found_manga) : h \in SeqSet(Entries)
        /\ \A i, j \in 1..Len(Entries) :
               (/\ Entries[i] \in SeqSet(loc.found_manga)
                /\ Entries[j] \in SeqSet(MapSeq(MangaOfFilterItem, loc.tag_manga)))
                   => i < j

----------------------------------------------------------------------------
(* Claims about the hidden scan and the tag-ID list of search_by_author *)

\* a batch is requested from the scanner in this step
BatchRequested == requests'.hidden # requests.hidden

C16_Step ==
    /\ BatchRequested =>
           /\ pc = "HiddenScan"
           /\ loc.found_manga = <<>>
           /\ loc'.batches = loc.batches + 1
           /\ requests'.hidden = requests.hidden + HiddenBatchPages
    /\ (pc = "HiddenScan" /\ loc'.found_manga # <<>>) => pc' # "HiddenScan"

\* C16: in scan_hidden_content, once a batch has yielded a new match no
\* further batch is requested from the scanner; a batch is requested only
\* while every earlier batch yielded no match.
C16_ScanStopsAtFirstMatchingBatch ==
    /\ [][C16_Step]_vars
    /\ [](loc.found_manga # <<>> => pc # "HiddenScan")

C16_Witness ==
    /\ pc = "Merge"
    /\ loc.found_manga # <<>>
    /\ loc.batches + 1 = MaxBatches
    /\ requests.hidden = HiddenBatchPages * loc.batches

NoDuplicates(s) == \A i, j \in 1..Len(s) : s[i] = s[j] => i = j

\* C17: the tag-ID list handed to the tag fetch holds only positive IDs and
\* holds no ID twice.
C17_TagIdsPositiveAndDistinct ==
    pc = "TagFetch" =>
        /\ \A i \in 1..Len(loc.final_tag_ids) : loc.final_tag_ids[i] > 0
        /\ NoDuplicates(loc.final_tag_ids)

----------------------------------------------------------------------------
(* Calls of single helpers.  inv holds one call: the helper (fn), its      *)
(* arguments and, once it has returned, what it returned (ret).             *)

\* the most tag IDs handed to the tag fetch
MaxTagIds == 2

\* the variables of the other machines while a single helper is called
IdleInit ==
    /\ merger = MergerNew
    /\ offers = <<>>
    /\ lastOp = [op |-> "new"]
    /\ finished = None
    /\ defaults \in {d \in SettingsInputs : ~IsSome(d.showHiddenContent)}
    /\ pc = "Idle"
    /\ author = <<>>
    /\ page = 1
    /\ loc = None
    /\ requests = NoRequests
    /\ fuzzyCalls = 0
    /\ stages = <<>>
    /\ result = None
    /\ kw = None
    /\ host = None

\* the call has returned
Returned(fn) == inv.fn = fn /\ IsSome(inv.ret)

\* n items of a tag page with the IDs from + 1 .. from + n
PageItems(from, n) == [i \in 1..n |-> FilterItem(from + i, "F", Some(sAB))]

\* n candidates of the keyword search, none with the ID of a tag item
KeywordList(n) == [i \in 1..n |-> SearchItem(300 + i, "K", Some(sAB))]

\* the JSON body of a filter response: the items and the total it reports;
\* FilterData deserializes comic_list only
TagResponse(items, total) == Api(0, Some([comic_list |-> items, total |-> total]))

\* what a tag request may return: a failure; a short page that reports no
\* total; the only page of 60 works; the only page of 100 works; the second
\* page of 250 works
TagPageOutcomes ==
    { Fail,
      TagResponse(PageItems(0, 37), None),
      TagResponse(PageItems(0, 60), Some(60)),
      TagResponse(PageItems(0, 100), Some(100)),
      TagResponse(PageItems(100, 100), Some(250)) }

\* the tag IDs of n author tags
TagIds(n) == [i \in 1..n |-> 9 + i]

\* the calls of the tail of search_by_author with the hidden scan off: the
\* tag IDs, a response per ID, the keyword candidates, and, in strict mode,
\* the first candidate as the verified strict one
TagPageCalls ==
    LET calls == { [fn |-> "tag_page", tag_ids |-> TagIds(Len(resps)), tag_resps |-> resps,
                    exact_match_found |-> exact,
                    strict_manga |-> IF exact THEN <<MangaOfSearchItem(KeywordList(1)[1])>>
                                     ELSE <<>>,
                    keyword_manga |-> KeywordList(n), ret |-> None] :
                       resps \in SeqsUpTo(TagPageOutcomes, MaxTagIds),
                       n \in {0, 63, 100},
                       exact \in BOOLEAN }
    IN  {c \in calls : c.exact_match_found => (c.tag_ids # <<>> /\ c.keyword_manga # <<>>)}

\* lines 253-291 of search_by_author when show_hidden_content() is false
CallTagPage ==
    /\ inv.fn = "tag_page"
    /\ ~IsSome(inv.ret)
    /\ \E f \in {fetch_manga_by_tags(inv.tag_ids, inv.tag_resps)} :
       \E r \in {MergeAndPage(MergerNew, inv.exact_match_found, f.items, f.total,
                              inv.strict_manga, inv.keyword_manga)} :
           inv' = [inv EXCEPT !.ret = Some([tag_manga |-> f.items, tag_total |-> f.total,
                                            page |-> r.page])]
    /\ UNCHANGED <<mergerVars, authorVars, kw, host>>

\* the state collect_tags_from_search is entered with
FreshSt == [seen_authors |-> <<>>, strict_ids |-> <<>>, partial_ids |-> <<>>,
            strict_manga |-> <<>>]

\* the entries of collect_tags_from_search: the direct stage of a short and
\* of a long author, and the fuzzy stage of the long author after a direct
\* stage that saw the author string "ab" and found no tag
CollectEntries ==
    { [target_author |-> sAB, st |-> FreshSt],
      [target_author |-> sABCD, st |-> FreshSt],
      [target_author |-> sABCD, st |-> [FreshSt EXCEPT !.seen_authors = <<sAB>>]] }

\* what a detail request may return in a call of collect_tags_from_search
CollectDetailOutcomes ==
    { Fail, Malformed,
      Api(0, Some([data |-> Some([authors |-> Some(<<AuthorTag(Some(10), Some(sAB))>>)])])),
      Api(0, Some([data |-> Some([authors |-> Some(<<AuthorTag(Some(12), Some(sCD))>>)])])) }

CollectCalls ==
    UNION { UNION { { [fn |-> "collect", search_resp |-> s, detail_resps |-> d,
                       target_author |-> e.target_author, st |-> e.st, ret |-> None] :
                         d \in [1..Len(CandidatesOf(s, e.target_author))
                                    -> CollectDetailOutcomes] } :
                    s \in SearchOutcomes } :
            e \in CollectEntries }

\* one call of collect_tags_from_search
CallCollect ==
    /\ inv.fn = "collect"
    /\ ~IsSome(inv.ret)
    /\ \E r \in {collect_tags_from_search(inv.search_resp, inv.detail_resps,
                                            inv.target_author, inv.st)} :
           inv' = [inv EXCEPT !.ret = Some(r)]
    /\ UNCHANGED <<mergerVars, authorVars, kw, host>>

\* the batches of page responses the scanner may get
ScannerCalls ==
    { [fn |-> "scanner_batch", page_resps |-> p, ret |-> None] :
          p \in [1..HiddenBatchPages -> HiddenPageOutcomes] }

\* HiddenContentScanner::next on one batch of page responses
CallScannerBatch ==
    /\ inv.fn = "scanner_batch"
    /\ ~IsSome(inv.ret)
    /\ inv' = [inv EXCEPT !.ret = Some(ScannerBatch(inv.page_resps))]
    /\ UNCHANGED <<mergerVars, authorVars, kw, host>>

\* lines 322-330 of collect_tags_from_search: one detail request per
\* candidate, in the order of the candidates; a request that cannot be
\* built with the token is built without it
DetailRequests(candidates) == [i \in 1..Len(candidates) |-> candidates[i].id]

\* the longest banner category
MaxBanner == 2

\* the items of a banner category: two works, the second without a banner
\* title; an item that is not a work; a work without an ID
BannerItems ==
    { [type |-> 1, obj_id |-> Some(21), title |-> <<"n">>],
      [type |-> 1, obj_id |-> Some(22), title |-> <<>>],
      [type |-> 2, obj_id |-> Some(23), title |-> <<"x">>],
      [type |-> 1, obj_id |-> Some(0), title |-> <<"z">>] }

\* Iterator::filter_map on a sequence of options
RECURSIVE Somes(_)
Somes(s) ==
    IF s = <<>> THEN <<>>
    ELSE (IF IsSome(Head(s)) THEN <<Head(s).some>> ELSE <<>>) \o Somes(Tail(s))

\* lines 396-427 of fetch_banner_manga_details: (manga_id, title) of the
\* items of type 1 whose obj_id is present and not 0
BannerDataOf(category) ==
    LET entry(item) ==
            LET obj_id == IF IsSome(item.obj_id) THEN ToString(item.obj_id.some) ELSE <<>>
            IN  IF item.type # 1 \/ obj_id = <<>> \/ obj_id = <<"0">> THEN None
                ELSE Some([manga_id |-> obj_id, title |-> item.title])
    IN  Somes([i \in 1..Len(category) |-> entry(category[i])])

\* lines 433-439: the requests that could be built, in the order of banner_data
BannerRequests(banner_data, built) ==
    Somes([i \in 1..Len(banner_data) |->
              IF built[i] THEN Some(banner_data[i].manga_id) ELSE None])

\* the title the detail of a work carries
DetailTitle(manga_id) == <<"t">> \o manga_id

\* the response to the detail request of a work
BannerResponse(manga_id, kind) ==
    IF kind = "ok"
    THEN Api(0, Some([data |-> Some([title |-> DetailTitle(manga_id)])]))
    ELSE [kind |-> kind]

\* lines 449-506: the loop over the responses
RECURSIVE BannerLoop(_, _, _, _)
BannerLoop(entries, idx, banner_data, responses) ==
    IF idx > Len(responses) \/ idx > Len(banner_data) THEN entries
    ELSE LET j == JsonOf(responses[idx])
             b == banner_data[idx]
         IN  IF IsSome(j) /\ IsSome(j.some.data) /\ IsSome(j.some.data.some.data)
             THEN BannerLoop(
                      Append(entries,
                             [key |-> b.manga_id,
                              title |-> j.some.data.some.data.some.title,
                              description |-> IF b.title # <<>> THEN Some(b.title) ELSE None]),
                      idx + 1, banner_data, responses)
             ELSE BannerLoop(entries, idx + 1, banner_data, responses)

\* fetch_banner_manga_details: built[i] tells whether the request of
\* banner_data[i] could be built, kinds[k] the outcome of the k-th request sent
fetch_banner_manga_details(category, built, kinds) ==
    LET banner_data == BannerDataOf(category)
        reqs == BannerRequests(banner_data, built)
        responses == [k \in 1..Len(reqs) |-> BannerResponse(reqs[k], kinds[k])]
    IN  IF banner_data = <<>> \/ reqs = <<>> THEN <<>>
        ELSE BannerLoop(<<>>, 1, banner_data, responses)

\* the calls of fetch_banner_manga_details
BannerCalls ==
    UNION { UNION { { [fn |-> "banner", category |-> c, built |-> b, kinds |-> k,
                       ret |-> None] :
                         k \in [1..Len(BannerRequests(BannerDataOf(c), b))
                                    -> {"fail", "malformed", "ok"}] } :
                    b \in [1..Len(BannerDataOf(c)) -> BOOLEAN] } :
            c \in SeqsUpTo(BannerItems, MaxBanner) }

\* one call of fetch_banner_manga_details
CallBanner ==
    /\ inv.fn = "banner"
    /\ ~IsSome(inv.ret)
    /\ inv' = [inv EXCEPT !.ret =
                   Some(fetch_banner_manga_details(inv.category, inv.built, inv.kinds))]
    /\ UNCHANGED <<mergerVars, authorVars, kw, host>>

\* the authors the fuzzy fallback is called with: two and four ASCII
\* characters; the same behind a decorative symbol; three characters that
\* take seven bytes
FuzzyAuthors ==
    { sAB, sABCD, <<"@">> \o sAB, <<"U+25CE">> \o sABCD, <<"U+674E", "U+56DB", "a">> }

\* the calls of try_fuzzy_author_search: after a direct stage that found
\* nothing, with the responses each term it queries would get
FuzzyCalls ==
    UNION { { [fn |-> "fuzzy", author |-> a, resps |-> resps, st |-> FreshSt,
               ret |-> None] : resps \in FuzzyResponses(a) } :
            a \in FuzzyAuthors }

\* one call of try_fuzzy_author_search
CallFuzzy ==
    /\ inv.fn = "fuzzy"
    /\ ~IsSome(inv.ret)
    /\ \E r \in {try_fuzzy_author_search(inv.author, inv.resps, inv.st)} :
           inv' = [inv EXCEPT !.ret = Some(r)]
    /\ UNCHANGED <<mergerVars, authorVars, kw, host>>

\* the tag entries of one detail at most
MaxTags == 2

\* the tag entries a detail may carry: the target's name, the name with a
\* blank before it, a longer and a shorter name, another name, a blank and
\* an empty name, an ID that is not positive, a missing ID, a missing name
ExtractTags ==
    { AuthorTag(Some(10), Some(sAB)),
      AuthorTag(Some(15), Some(<<" ">> \o sAB)),
      AuthorTag(Some(11), Some(sABCD)),
      AuthorTag(Some(16), Some(<<"a">>)),
      AuthorTag(Some(12), Some(sCD)),
      AuthorTag(Some(13), Some(<<" ">>)),
      AuthorTag(Some(17), Some(<<>>)),
      AuthorTag(Some(0), Some(sAB)),
      AuthorTag(None, Some(sAB)),
      AuthorTag(Some(14), None) }

\* the calls of extract_author_tags_from_detail
ExtractCalls ==
    { [fn |-> "extract", detail |-> [authors |-> a], target_author |-> target, ret |-> None] :
          a \in {None} \cup {Some(s) : s \in SeqsUpTo(ExtractTags, MaxTags)},
          target \in {sAB, sABCD} }

\* extract_author_tags_from_detail
CallExtract ==
    /\ inv.fn = "extract"
    /\ ~IsSome(inv.ret)
    /\ inv' = [inv EXCEPT !.ret = Some(extract_author_tags_from_detail(inv.detail,
                                                                       inv.target_author))]
    /\ UNCHANGED <<mergerVars, authorVars, kw, host>>

\* the items a batch of the hidden scan may hold: the author alone, after
\* another name and a blank, no authors field, a longer name, the author in
\* a "/"-separated field, another name
ScanItems ==
    { FilterItem(7, "S1", Some(sAB)),
      FilterItem(1, "S2", Some(sCD \o <<",", " ">> \o sAB)),
      FilterItem(8, "S3", None),
      FilterItem(9, "S4", Some(sABCD)),
      FilterItem(5, "S5", Some(sAB \o <<"/">> \o sCD)),
      FilterItem(6, "S6", Some(sCD)) }

\* the calls of the inner loop of scan_hidden_content on one batch: in strict
\* and in non-strict mode, with no ID seen and with the ID of S1 seen
ScanCalls ==
    { [fn |-> "scan", items |-> items, target_author |-> sAB, strict_mode |-> strict_mode,
       seen_ids |-> seen_ids, ret |-> None] :
          items \in SeqsUpTo(ScanItems, MaxList), strict_mode \in BOOLEAN,
          seen_ids \in {{}, {7}} }

\* lines 448-471 of scan_hidden_content on one batch
CallScan ==
    /\ inv.fn = "scan"
    /\ ~IsSome(inv.ret)
    /\ inv' = [inv EXCEPT !.ret = Some(ScanBatch(<<>>, inv.seen_ids, inv.items,
                                                 inv.target_author, inv.strict_mode))]
    /\ UNCHANGED <<mergerVars, authorVars, kw, host>>

CallInputs ==
    TagPageCalls \cup CollectCalls \cup ScannerCalls \cup BannerCalls \cup FuzzyCalls
        \cup ExtractCalls \cup ScanCalls

CallsInit ==
    /\ IdleInit
    /\ inv \in CallInputs

CallsNext ==
    \/ CallTagPage
    \/ CallCollect
    \/ CallScannerBatch
    \/ CallBanner
    \/ CallFuzzy
    \/ CallExtract
    \/ CallScan

SpecCalls == CallsInit /\ [][CallsNext]_vars

----------------------------------------------------------------------------
(* Claims about the tag fetch and the page of search_by_author *)

\* has_next_page as the sentence "true when tag_total is at least 100,
\* otherwise true when the merged page holds at least 100 entries" reads
C11_HasNextByTotalOrFullPage ==
    Returned("tag_page") =>
        LET r == inv.ret.some
        IN  r.page.has_next_page =
                (IF r.tag_total > 0 /\ r.tag_total >= TagPageSize THEN TRUE
                 ELSE Len(r.page.entries) >= TagPageSize)

\* C11: has_next_page of search_by_author is tag_total >= 100 when
\* tag_total > 0, and (merged count >= 100) only when tag_total = 0; a tag
\* page of 100 items gives true, a tag page of 37 items gives false, and an
\* empty merge gives the empty page with has_next_page = false.
C11_HasNextPage ==
    Returned("tag_page") =>
        LET r == inv.ret.some
        IN  /\ r.page.entries # <<>> =>
                   r.page.has_next_page =
                       (IF r.tag_total > 0 THEN r.tag_total >= TagPageSize
                        ELSE Len(r.page.entries) >= TagPageSize)
            /\ r.page.entries = <<>> => r.page = [entries |-> <<>>, has_next_page |-> FALSE]
            /\ inv.tag_resps = <<TagResponse(PageItems(0, 100), Some(100))>>
                   => r.page.has_next_page
            /\ inv.tag_resps = <<TagResponse(PageItems(0, 37), None)>>
                   => ~r.page.has_next_page

C11_Witness ==
    /\ Returned("tag_page")
    /\ inv.ret.some.tag_total = 60
    /\ Len(inv.ret.some.page.entries) = 123
    /\ ~inv.ret.some.page.has_next_page

\* the total a tag response reports, 0 when it reports none
ReportedTotal(resp) ==
    LET j == JsonOf(resp)
    IN  IF IsSome(j) /\ IsSome(j.some.data) /\ IsSome(j.some.data.some.total)
        THEN j.some.data.some.total.some
        ELSE 0

RECURSIVE MaxReported(_)
MaxReported(resps) ==
    IF resps = <<>> THEN 0
    ELSE LET rest == MaxReported(Tail(resps))
             t == ReportedTotal(Head(resps))
         IN  IF t > rest THEN t ELSE rest

\* C12: tag_total is the maximum of the totals the tag responses report
\* (0 when none reports one), whatever the number of items received.
C12_TagTotalIsMaxReported ==
    Returned("tag_page") => inv.ret.some.tag_total = MaxReported(inv.tag_resps)

----------------------------------------------------------------------------
(* Claims about the slots of the parallel batches *)

Drop(s, n) == SubSeq(s, n + 1, Len(s))

\* what one slot of the detail batch added to the matched candidates and to
\* the state of the caller
Contribution(before, after) ==
    [matched |-> Drop(after.matched, Len(before.matched)),
     seen_authors |-> Drop(after.st.seen_authors, Len(before.st.seen_authors)),
     strict_ids |-> Drop(after.st.strict_ids, Len(before.st.strict_ids)),
     partial_ids |-> Drop(after.st.partial_ids, Len(before.st.partial_ids)),
     strict_manga |-> Drop(after.st.strict_manga, Len(before.st.strict_manga))]

NoContribution ==
    [matched |-> <<>>, seen_authors |-> <<>>, strict_ids |-> <<>>, partial_ids |-> <<>>,
     strict_manga |-> <<>>]

\* the contributions of the slots of a detail batch, slot by slot
RECURSIVE SlotContributions(_, _, _, _, _)
SlotContributions(acc, i, candidates, responses, target_author) ==
    IF i > Len(responses) THEN <<>>
    ELSE LET after == CollectStep(acc, candidates[i], responses[i], target_author)
         IN  <<Contribution(acc, after)>>
                 \o SlotContributions(after, i + 1, candidates, responses, target_author)

CallCandidates == CandidatesOf(inv.search_resp, inv.target_author)

ContributionsWith(responses) ==
    SlotContributions([matched |-> <<>>, st |-> inv.st], 1, CallCandidates, responses,
                      inv.target_author)

AuthorKey(k) == UnwrapOr(CallCandidates[k].authors, <<>>)

Validates(resp) == IsSome(DetailOf(resp))

\* the author-field strings whose tags were collected before slot k
CollectedBefore(k) ==
    SeqSet(inv.st.seen_authors)
        \cup {AuthorKey(i) : i \in {j \in 1..(k - 1) : Validates(inv.detail_resps[j])}}

\* the call returned what its slots contributed, slot after slot
ReturnsAllContributions(c) ==
    LET r == inv.ret.some
        all(f(_)) == Concat([k \in 1..Len(c) |-> f(c[k])])
        m(x) == x.matched
        sa(x) == x.seen_authors
        si(x) == x.strict_ids
        pi(x) == x.partial_ids
        sm(x) == x.strict_manga
    IN  /\ ~r.err
        /\ Len(c) = Len(inv.detail_resps)
        /\ r.matched = all(m)
        /\ r.st.seen_authors = inv.st.seen_authors \o all(sa)
        /\ r.st.strict_ids = inv.st.strict_ids \o all(si)
        /\ r.st.partial_ids = inv.st.partial_ids \o all(pi)
        /\ r.st.strict_manga = inv.st.strict_manga \o all(sm)

\* detail verification as the sentence reads: a slot that did not validate
\* contributes nothing, and no slot changes what another contributes
DetailSlotsIndependent ==
    Returned("collect") =>
        LET c == ContributionsWith(inv.detail_resps)
        IN  /\ ReturnsAllContributions(c)
            /\ \A k \in 1..Len(c) :
                   /\ ~Validates(inv.detail_resps[k]) => c[k] = NoContribution
                   /\ \A o \in CollectDetailOutcomes :
                          LET c2 == ContributionsWith([inv.detail_resps EXCEPT ![k] = o])
                          IN  \A j \in 1..Len(c) : j # k => c2[j] = c[j]

\* detail verification: a slot that did not validate adds no tag ID, no
\* seen author and no strict record, and adds its candidate only when the
\* tags of its author string were collected before; a slot that validates
\* and whose author string is new adds that string and all the tag IDs of
\* its detail; no slot changes what a slot with another author string adds
DetailSlotsIndependentUpToSeen ==
    Returned("collect") =>
        LET c == ContributionsWith(inv.detail_resps)
        IN  /\ ReturnsAllContributions(c)
            /\ \A k \in 1..Len(c) :
                   /\ ~Validates(inv.detail_resps[k]) =>
                          /\ [c[k] EXCEPT !.matched = <<>>] = NoContribution
                          /\ c[k].matched =
                                 (IF AuthorKey(k) \in CollectedBefore(k)
                                  THEN <<CallCandidates[k]>> ELSE <<>>)
                   /\ (Validates(inv.detail_resps[k]) /\ AuthorKey(k) \notin CollectedBefore(k)) =>
                          LET e == extract_author_tags_from_detail(
                                       DetailOf(inv.detail_resps[k]).some, inv.target_author)
                          IN  /\ c[k].seen_authors = <<AuthorKey(k)>>
                              /\ c[k].strict_ids = e.strict_ids
                              /\ c[k].partial_ids = e.partial_ids
                   /\ \A o \in CollectDetailOutcomes :
                          LET c2 == ContributionsWith([inv.detail_resps EXCEPT ![k] = o])
                          IN  \A j \in 1..Len(c) :
                                  (j # k /\ AuthorKey(j) # AuthorKey(k)) => c2[j] = c[j]

\* the items fetch_manga_by_tags returns for one response alone
TagSlotAlone(resp) == fetch_manga_by_tags(<<inv.tag_ids[1]>>, <<resp>>).items

\* tag fetch: the items are those of every slot alone, slot after slot; a
\* failed slot alone gives none, a successful one its whole comic_list
TagSlotsIndependent ==
    Returned("tag_page") =>
        /\ inv.ret.some.tag_manga =
               Concat([k \in 1..Len(inv.tag_resps) |-> TagSlotAlone(inv.tag_resps[k])])
        /\ \A k \in 1..Len(inv.tag_resps) :
               LET resp == inv.tag_resps[k]
               IN  /\ resp.kind # "ok" => TagSlotAlone(resp) = <<>>
                   /\ (resp.kind = "ok" /\ IsSome(resp.data)) =>
                          TagSlotAlone(resp) = resp.data.some.comic_list

\* the items the scanner yields for one page response alone
PageSlotAlone(resp) == ScannerBatch(<<resp>>)

\* hidden scan: the same for the pages of one batch of the scanner
PageSlotsIndependent ==
    Returned("scanner_batch") =>
        /\ inv.ret.some =
               Concat([k \in 1..Len(inv.page_resps) |-> PageSlotAlone(inv.page_resps[k])])
        /\ \A k \in 1..Len(inv.page_resps) :
               LET resp == inv.page_resps[k]
               IN  /\ resp.kind # "ok" => PageSlotAlone(resp) = <<>>
                   /\ (resp.kind = "ok" /\ IsSome(resp.data)) =>
                          PageSlotAlone(resp) = resp.data.some.comic_list

\* the statement that in every parallel batch of the author search a slot
\* that failed or is malformed contributes nothing, every successful slot
\* contributes all of its items, and no slot changes what another contributes
C14_SlotsIndependent ==
    /\ DetailSlotsIndependent
    /\ TagSlotsIndependent
    /\ PageSlotsIndependent

\* C14: no batch of the author search is abandoned.  In the tag fetch and
\* the hidden scan a failed or malformed slot contributes nothing and every
\* successful slot all of its items, whatever the other slots return.  In
\* the detail verification a failed or malformed slot adds no tag ID, and a
\* slot changes what another adds only when both candidates carry the same
\* raw author-field string.
C14_SlotsIndependentUpToSeenAuthors ==
    /\ DetailSlotsIndependentUpToSeen
    /\ TagSlotsIndependent
    /\ PageSlotsIndependent

C14_Witness ==
    /\ Returned("collect")
    /\ inv.target_author = sAB
    /\ Len(inv.detail_resps) = 2
    /\ inv.detail_resps[1] = Fail
    /\ AuthorKey(1) # AuthorKey(2)
    /\ inv.ret.some.st.strict_ids = <<10>>
    /\ inv.ret.some.matched = <<CallCandidates[2]>>

\* C18: within one author search the tags are collected at most once per
\* raw author-field string: seen_authors never holds a string twice, and a
\* candidate whose string was collected before, in this stage or in the
\* direct stage, adds no tag ID and no seen author.
C18_TagsCollectedOncePerAuthorString ==
    Returned("collect") =>
        LET c == ContributionsWith(inv.detail_resps)
        IN  /\ ReturnsAllContributions(c)
            /\ NoDuplicates(inv.ret.some.st.seen_authors)
            /\ \A k \in 1..Len(c) :
                   AuthorKey(k) \in CollectedBefore(k) =>
                       /\ c[k].strict_ids = <<>>
                       /\ c[k].partial_ids = <<>>
                       /\ c[k].seen_authors = <<>>

C18_Witness ==
    /\ Returned("collect")
    /\ inv.st.seen_authors = <<sAB>>
    /\ Len(inv.detail_resps) = 2
    /\ AuthorKey(1) = sAB
    /\ AuthorKey(2) # sAB
    /\ Validates(inv.detail_resps[1])
    /\ inv.ret.some.st.seen_authors = <<sAB, AuthorKey(2)>>
    /\ inv.ret.some.st.partial_ids = <<12>>

\* C15: a response is attributed to the input whose request it answers:
\* collect_tags_from_search sends the detail request of candidate i as the
\* i-th request, and every entry of fetch_banner_manga_details carries the
\* detail of the work whose ID is its key, also when some requests failed
\* or could not be built.
C15_ResponsesAttributedByPosition ==
    /\ Returned("collect") =>
           /\ Len(DetailRequests(CallCandidates)) = Len(inv.detail_resps)
           /\ \A i \in 1..Len(CallCandidates) :
                  DetailRequests(CallCandidates)[i] = CallCandidates[i].id
    /\ Returned("banner") =>
           \A i \in 1..Len(inv.ret.some) :
               inv.ret.some[i].title = DetailTitle(inv.ret.some[i].key)

----------------------------------------------------------------------------
(* Claims about the terms of the fuzzy fallback *)

\* str::trim_start_matches(char)
RECURSIVE TrimStartMatches(_, _)
TrimStartMatches(s, c) ==
    IF s # <<>> /\ Head(s) = c THEN TrimStartMatches(Tail(s), c) ELSE s

\* the author without its leading decorative symbols, as lib.rs:170 strips them
StrippedAuthor(author_) ==
    TrimStartMatches(TrimStartMatches(TrimStartMatches(author_, "U+25CE"), "@"), "U+25EF")

\* C19: when the fuzzy fallback runs for an author that begins with a
\* decorative symbol, a retry search is issued whose query is the author
\* with the leading symbols stripped, the original author being the match
\* target.
C19_RetryWithStrippedCoreName ==
    (Returned("fuzzy") /\ StrippedAuthor(inv.author) # inv.author) =>
        /\ inv.ret.some.queries # <<>>
        /\ inv.ret.some.queries[1] = StrippedAuthor(inv.author)

\* C20: short_core is the first 2 characters of core_name when core_name has
\* 4 or more characters, counted as characters and not as bytes, and is
\* core_name otherwise; in the second case the short_core attempt issues no
\* request.
C20_ShortCore ==
    Returned("fuzzy") =>
        LET core_name == FuzzyCores(inv.author)[1]
            short_core == FuzzyCores(inv.author)[2]
            core_name_queried == core_name # <<>> /\ core_name # inv.author
        IN  /\ Len(core_name) >= 4 => short_core = <<core_name[1], core_name[2]>>
            /\ Len(core_name) < 4 =>
                   /\ short_core = core_name
                   /\ Len(inv.ret.some.queries) <= (IF core_name_queried THEN 1 ELSE 0)
                   /\ inv.ret.some.search = Len(inv.ret.some.queries)

C20_Witness ==
    /\ Returned("fuzzy")
    /\ inv.author = <<"U+25CE">> \o sABCD
    /\ inv.ret.some.queries = <<<<"U+25CE", "a">>>>
    /\ inv.ret.some.search = 1

----------------------------------------------------------------------------
(* search_by_keyword.  kw holds its position (pc), its arguments, its       *)
(* locals, the batches it dispatched and the refreshes it asked for.        *)

\* settings::get_current_token: the stored token
get_current_token == get_token

\* line 28: all characters are ASCII digits
AllDigits(s) == \A i \in 1..Len(s) : IsDigit(s[i])

\* str::rfind(char): the last position of the character, 0 when absent
RFind(s, c) ==
    IF \E i \in 1..Len(s) : s[i] = c
    THEN CHOOSE i \in 1..Len(s) : s[i] = c /\ \A j \in (i + 1)..Len(s) : s[j] # c
    ELSE 0

\* chars().take_while(is_ascii_digit)
RECURSIVE TakeWhileDigit(_)
TakeWhileDigit(s) ==
    IF s # <<>> /\ IsDigit(Head(s)) THEN <<Head(s)>> \o TakeWhileDigit(Tail(s)) ELSE <<>>

sSite == <<"z", "a", "i", "m", "a", "n", "h", "u", "a", ".", "c", "o", "m">>

\* parse_manga_id
parse_manga_id(keyword) ==
    LET trimmed == Trim(keyword)
    IN  IF AllDigits(trimmed) /\ trimmed # <<>> THEN Some(trimmed)
        ELSE IF Contains(trimmed, sSite) /\ RFind(trimmed, "/") > 0
                /\ TakeWhileDigit(Drop(trimmed, RFind(trimmed, "/"))) # <<>>
        THEN Some(TakeWhileDigit(Drop(trimmed, RFind(trimmed, "/"))))
        ELSE None

\* fetch_manga_by_id: the work of the detail response, when errno is 0 and
\* the detail is there
fetch_manga_by_id(id, resp) ==
    LET j == JsonOf(resp)
    IN  IF ~IsSome(j) THEN None
        ELSE IF j.some.errno # 0 THEN None
        ELSE IF IsSome(j.some.data) /\ IsSome(j.some.data.some.data)
        THEN Some(Manga(id, j.some.data.some.data.some.title, None))
        ELSE None

\* the pages of hidden content one batch of search_by_keyword asks for
KeywordHiddenPages == 5

\* the iterations of the retry loop
RetryLimit == 2

\* the errno of an authorization error
AuthErrno == 99

\* char::to_lowercase on the letters of the model
LowerChar(c) == IF c = "A" THEN "a" ELSE IF c = "B" THEN "b" ELSE c

\* str::to_lowercase
Lower(s) == [i \in 1..Len(s) |-> LowerChar(s[i])]

\* lines 94-115: the requests of one batch, the search request first
BatchRequests(should_scan_hidden) ==
    <<"search">> \o (IF should_scan_hidden THEN [i \in 1..KeywordHiddenPages |-> "hidden"]
                     ELSE <<>>)

\* a loop over the hidden responses that passes over errno 99
RECURSIVE HiddenParseLoopSkipsAuth(_, _)
HiddenParseLoopSkipsAuth(acc, resps) ==
    IF resps = <<>> THEN acc
    ELSE LET j == JsonOf(Head(resps))
         IN  IF ~IsSome(j) THEN HiddenParseLoopSkipsAuth(acc, Tail(resps))
             ELSE IF j.some.errno = AuthErrno THEN HiddenParseLoopSkipsAuth(acc, Tail(resps))
             ELSE IF IsSome(j.some.data)
             THEN HiddenParseLoopSkipsAuth(
                      [acc EXCEPT !.hidden_items = @ \o j.some.data.some.comic_list],
                      Tail(resps))
             ELSE HiddenParseLoopSkipsAuth(acc, Tail(resps))

\* lines 139-151: the loop over the hidden responses; it stops at errno 99
RECURSIVE HiddenParseLoop(_, _)
HiddenParseLoop(acc, resps) ==
    IF resps = <<>> THEN acc
    ELSE LET j == JsonOf(Head(resps))
         IN  IF ~IsSome(j) THEN HiddenParseLoop(acc, Tail(resps))
             ELSE IF j.some.errno = AuthErrno THEN [acc EXCEPT !.needs_retry = TRUE]
             ELSE IF IsSome(j.some.data)
             THEN HiddenParseLoop(
                      [acc EXCEPT !.hidden_items = @ \o j.some.data.some.comic_list],
                      Tail(resps))
             ELSE HiddenParseLoop(acc, Tail(resps))

\* a parsing that asks for a retry on every non-zero errno of the search
\* response
ParseBatchAnyErrno(responses, should_scan_hidden) ==
    LET j == JsonOf(responses[1])
        first == IF IsSome(j)
                 THEN IF j.some.errno # 0
                      THEN [needs_retry |-> TRUE, search_data |-> None, hidden_items |-> <<>>]
                      ELSE [needs_retry |-> FALSE, search_data |-> j.some.data,
                            hidden_items |-> <<>>]
                 ELSE [needs_retry |-> FALSE, search_data |-> None, hidden_items |-> <<>>]
    IN  IF should_scan_hidden /\ ~first.needs_retry
        THEN HiddenParseLoop(first, Tail(responses))
        ELSE first

\* lines 120-151: what one batch of responses parses to
ParseBatch(responses, should_scan_hidden) ==
    LET j == JsonOf(responses[1])
        first == IF IsSome(j)
                 THEN IF j.some.errno = AuthErrno
                      THEN [needs_retry |-> TRUE, search_data |-> None, hidden_items |-> <<>>]
                      ELSE [needs_retry |-> FALSE, search_data |-> j.some.data,
                            hidden_items |-> <<>>]
                 ELSE [needs_retry |-> FALSE, search_data |-> None, hidden_items |-> <<>>]
    IN  IF should_scan_hidden /\ ~first.needs_retry
        THEN HiddenParseLoop(first, Tail(responses))
        ELSE first

\* a retry gate that forgets the retry already made
RetryAlways(retry_count) == TRUE

\* line 154: a refresh is tried only after the first batch
RetryAllowed(retry_count) == retry_count = 0

\* lines 181-199: the loop over the hidden items
RECURSIVE KeywordHiddenLoop(_, _, _, _)
KeywordHiddenLoop(acc, items, existing_ids, keyword_lower) ==
    IF items = <<>> THEN acc
    ELSE LET item == Head(items)
             sid == ToString(item.id)
             name_lower == Lower(item.name)
             auth_lower == Lower(UnwrapOr(item.authors, <<>>))
         IN  IF sid \in existing_ids
             THEN KeywordHiddenLoop(acc, Tail(items), existing_ids, keyword_lower)
             ELSE IF Contains(name_lower, keyword_lower) \/ Contains(auth_lower, keyword_lower)
             THEN KeywordHiddenLoop(
                      [results |-> Append(acc.results, MangaOfFilterItem(item)),
                       hidden_count |-> acc.hidden_count + 1],
                      Tail(items), existing_ids, keyword_lower)
             ELSE KeywordHiddenLoop(acc, Tail(items), existing_ids, keyword_lower)

\* lines 170-206: the page of the committed search data and hidden items
KeywordPage(keyword, search_data, hidden_items) ==
    LET results == IF IsSome(search_data)
                   THEN MapSeq(MangaOfSearchItem, search_data.some.list)
                   ELSE <<>>
        existing_ids == {results[i].key : i \in 1..Len(results)}
        acc == KeywordHiddenLoop([results |-> results, hidden_count |-> 0],
                                 hidden_items, existing_ids, Lower(keyword))
        hidden_has_next == hidden_items # <<>> /\ acc.hidden_count >= 1
    IN  [entries |-> acc.results,
         has_next_page |-> acc.results # <<>> \/ hidden_has_next]

\* the keywords of search_by_keyword: blank, a name in lower and in mixed
\* case, a numeric ID
Keywords == { <<" ">>, sAB, <<"A", "b">>, <<"7">> }

\* the items the keyword search lists
KeywordSearchList == <<SearchItem(1, sAB, Some(sAB)), SearchItem(2, <<"x">>, Some(sCD))>>

\* what the search request of a batch may return
KeywordSearchOutcomes ==
    { Fail, Malformed, Api(AuthErrno, None), Api(1, None),
      Api(1, Some([list |-> KeywordSearchList])),
      Api(0, Some([list |-> <<>>])), Api(0, Some([list |-> KeywordSearchList])) }

\* what a hidden page request of a batch may return: the page lists a work
\* named like the keyword
KeywordHiddenOutcomes ==
    { Fail, Api(AuthErrno, None),
      Api(0, Some([comic_list |-> <<FilterItem(7, <<"A", "B">>, None)>>])) }

\* what the detail request of the direct access may return
DirectAccessOutcomes ==
    { Fail, Api(1, None), Api(0, Some([data |-> None])),
      Api(0, Some([data |-> Some([title |-> <<"t">>])])) }

\* net::try_refresh_token: a new token, none, or an error
RefreshOutcomes == { Ok(Some(<<"n">>)), Ok(None), Err }

KeywordInit ==
    /\ merger = MergerNew
    /\ offers = <<>>
    /\ lastOp = [op |-> "new"]
    /\ finished = None
    /\ defaults \in SettingsInputs
    /\ pc = "Idle"
    /\ author = <<>>
    /\ page = 1
    /\ loc = None
    /\ requests = NoRequests
    /\ fuzzyCalls = 0
    /\ stages = <<>>
    /\ result = None
    /\ inv = None
    /\ host = None
    /\ \E keyword \in Keywords, p \in {1, 2} :
           kw = [pc |-> "Start", keyword |-> keyword, page |-> p, token |-> None,
                 retry_count |-> 0, search_data |-> None, hidden_items |-> <<>>,
                 batches |-> <<>>, refreshes |-> <<>>, direct |-> 0, result |-> None]

KeywordUnchanged == UNCHANGED <<mergerVars, authorVars, inv, host>>

\* lines 66-68: the blank check
KeywordEnter ==
    /\ kw.pc = "Start"
    /\ IF Trim(kw.keyword) = <<>>
       THEN kw' = [kw EXCEPT !.pc = "Done", !.result = Ok(DefaultPage)]
       ELSE kw' = [kw EXCEPT !.pc = "DirectAccess"]
    /\ KeywordUnchanged

\* lines 73-88: the direct access by ID on the first page, then the locals
KeywordDirectAccess ==
    /\ kw.pc = "DirectAccess"
    /\ LET id == parse_manga_id(kw.keyword)
       IN  IF kw.page = 1 /\ IsSome(id)
           THEN \E resp \in DirectAccessOutcomes :
                    LET manga == fetch_manga_by_id(id.some, resp)
                    IN  IF IsSome(manga)
                        THEN kw' = [kw EXCEPT !.pc = "Done", !.direct = 1,
                                       !.result = Ok([entries |-> <<manga.some>>,
                                                      has_next_page |-> FALSE])]
                        ELSE kw' = [kw EXCEPT !.pc = "Batch", !.direct = 1,
                                              !.token = get_current_token]
           ELSE kw' = [kw EXCEPT !.pc = "Batch", !.token = get_current_token]
    /\ KeywordUnchanged

\* lines 92-168, one iteration of the retry loop up to the refresh: the
\* batch is built and sent, the responses are parsed, and the data is
\* committed unless an authorization error was seen
KeywordBatch ==
    /\ kw.pc = "Batch"
    /\ LET should_scan_hidden == show_hidden_content
           reqs == BatchRequests(should_scan_hidden)
       IN  \E search_resp \in KeywordSearchOutcomes :
           \E hidden_resps \in [1..(Len(reqs) - 1) -> KeywordHiddenOutcomes] :
           \E r \in {ParseBatch(<<search_resp>> \o hidden_resps, should_scan_hidden)} :
               LET j == JsonOf(search_resp)
                   responses == <<search_resp>> \o hidden_resps
                   sent == Append(kw.batches,
                                  [token |-> kw.token, requests |-> reqs,
                                   search_errno |-> IF IsSome(j) THEN Some(j.some.errno)
                                                    ELSE None,
                                   search_data |-> IF IsSome(j) THEN j.some.data ELSE None,
                                   errno99 |-> \E i \in 1..Len(responses) :
                                                   /\ responses[i].kind = "ok"
                                                   /\ responses[i].errno = AuthErrno,
                                   auth_error |-> r.needs_retry])
               IN  IF r.needs_retry
                   THEN IF RetryAllowed(kw.retry_count)
                        THEN kw' = [kw EXCEPT !.pc = "Refresh", !.batches = sent]
                        ELSE kw' = [kw EXCEPT !.pc = "Merge", !.batches = sent]
                   ELSE kw' = [kw EXCEPT !.pc = "Merge", !.batches = sent,
                                         !.search_data = r.search_data,
                                         !.hidden_items = r.hidden_items]
    /\ KeywordUnchanged

\* lines 154-162: the refresh of the token; with a new token the loop goes
\* on while it has an iteration left
KeywordRefresh ==
    /\ kw.pc = "Refresh"
    /\ \E outcome \in RefreshOutcomes :
           IF outcome # Err /\ IsSome(outcome.ok)
           THEN kw' = [kw EXCEPT !.token = outcome.ok,
                                 !.retry_count = @ + 1,
                                 !.refreshes = Append(@, TRUE),
                                 !.pc = IF kw.retry_count + 1 < RetryLimit
                                        THEN "Batch" ELSE "Merge"]
           ELSE kw' = [kw EXCEPT !.refreshes = Append(@, FALSE), !.pc = "Merge"]
    /\ KeywordUnchanged

\* lines 170-206: the result merging and the page returned
KeywordMerge ==
    /\ kw.pc = "Merge"
    /\ kw' = [kw EXCEPT !.pc = "Done",
                        !.result = Ok(KeywordPage(kw.keyword, kw.search_data,
                                                  kw.hidden_items))]
    /\ KeywordUnchanged

KeywordNext ==
    \/ KeywordEnter
    \/ KeywordDirectAccess
    \/ KeywordBatch
    \/ KeywordRefresh
    \/ KeywordMerge

SpecKeyword == KeywordInit /\ [][KeywordNext]_vars

----------------------------------------------------------------------------
(* Claims about the retry loop of search_by_keyword *)

C13_Step ==
    \* an authorization error in the first batch asks for one refresh
    /\ (kw.pc = "Batch" /\ Len(kw.batches) = 0 /\ kw'.batches[1].auth_error)
           => kw'.pc = "Refresh"
    \* a refresh that gave a new token sends a second batch with it
    /\ (kw.pc = "Refresh" /\ kw'.refreshes = <<TRUE>>)
           => (kw'.pc = "Batch" /\ kw'.token # kw.token /\ kw'.batches = kw.batches)
    \* a failed refresh and a second batch end the stage
    /\ (kw.pc = "Refresh" /\ kw'.refreshes = <<FALSE>>)
           => (kw'.pc = "Merge" /\ kw'.batches = kw.batches)
    /\ (kw.pc = "Batch" /\ Len(kw.batches) = 1) => kw'.pc = "Merge"
    \* after the stage nothing is sent and nothing refreshed
    /\ kw.pc \in {"Merge", "Done"} =>
           (kw'.batches = kw.batches /\ kw'.refreshes = kw.refreshes)

\* C13: in one search_by_keyword call the token is refreshed at most once
\* and the batch is dispatched at most twice: an authorization error (errno
\* 99) in the first batch triggers one refresh and the resending of the
\* whole batch, search request and hidden-scan requests, with the new token;
\* an authorization error in the second batch, or a failed refresh, ends the
\* stage without a further request.
C13_OneRefreshTwoBatches ==
    /\ [][C13_Step]_vars
    /\ [](/\ Len(kw.refreshes) <= 1
          /\ Len(kw.batches) <= 2
          /\ Len(kw.refreshes) = 1 => (Len(kw.batches) >= 1 /\ kw.batches[1].auth_error)
          /\ Len(kw.batches) = 2 =>
                 /\ kw.refreshes = <<TRUE>>
                 /\ kw.batches[2].requests = kw.batches[1].requests
                 /\ kw.batches[2].token = kw.token
                 /\ kw.batches[2].token # kw.batches[1].token)

C13_Witness ==
    /\ kw.pc = "Done"
    /\ Len(kw.batches) = 2
    /\ Len(kw.batches[2].requests) = 1 + KeywordHiddenPages
    /\ kw.batches[2].auth_error
    /\ kw.refreshes = <<TRUE>>
    /\ kw.result = Ok(DefaultPage)

----------------------------------------------------------------------------
(* Claims about the classification of the tag names of a detail *)

\* the one tag entry of the detail of the call, when it has a name and a
\* positive ID
OneTag ==
    /\ inv.fn = "extract"
    /\ IsSome(inv.detail.authors)
    /\ Len(inv.detail.authors.some) = 1
    /\ IsSome(inv.detail.authors.some[1].tag_name)
    /\ IsSome(inv.detail.authors.some[1].tag_id)
    /\ inv.detail.authors.some[1].tag_id.some > 0

\* what the classification of a name against a target is to be
Classification(name, target) ==
    IF Trim(name) = <<>> THEN "None"
    ELSE IF Trim(name) = target THEN "Strict"
    ELSE IF Contains(name, target) \/ Contains(target, name) THEN "Partial"
    ELSE "None"

\* C21: the classification of an author name against a target author is
\* Strict iff the name equals the target after trimming, Partial iff it is not
\* Strict and one of the two contains the other, None otherwise; an empty or
\* blank name is always None.
C21_ClassifyAuthorName ==
    (Returned("extract") /\ OneTag) =>
        inv.ret.some.match_type =
            Classification(inv.detail.authors.some[1].tag_name.some, inv.target_author)

\* C30: the strict and the partial tag IDs one extract_author_tags_from_detail
\* call returns are disjoint and each free of duplicates, also when the author
\* list repeats a tag entry; a tag whose name equals the target author is
\* never reported as partial.
C30_StrictAndPartialDisjoint ==
    Returned("extract") =>
        LET strict_ids == inv.ret.some.strict_ids
            partial_ids == inv.ret.some.partial_ids
            authors == UnwrapOr(inv.detail.authors, <<>>)
        IN  /\ NoDuplicates(strict_ids)
            /\ NoDuplicates(partial_ids)
            /\ SeqSet(strict_ids) \cap SeqSet(partial_ids) = {}
            /\ \A i \in 1..Len(authors) :
                   (/\ IsSome(authors[i].tag_name)
                    /\ IsSome(authors[i].tag_id)
                    /\ authors[i].tag_name.some = inv.target_author)
                       => ~InSeq(authors[i].tag_id.some, partial_ids)

----------------------------------------------------------------------------
(* The settings store driven by the host.  defaults holds the keys of        *)
(* settings.rs; host holds the clock of the host (now) and, for the claims, *)
(* what the host did last.                                                  *)

\* a store in which no key is set
NoDefaults ==
    [auth_token |-> None, enhancedMode |-> None, showHiddenContent |-> None,
     autoCheckin |-> None, lastCheckin |-> None,
     hiddenCache |-> None, hiddenCacheTime |-> None]

\* what an operation on the settings leaves alone
settingsFrame ==
    <<mergerVars, pc, author, page, loc, requests, fuzzyCalls, stages, result, kw, inv>>

SettingsIdle ==
    /\ merger = MergerNew
    /\ offers = <<>>
    /\ lastOp = [op |-> "new"]
    /\ finished = None
    /\ pc = "Idle"
    /\ author = <<>>
    /\ page = 1
    /\ loc = None
    /\ requests = NoRequests
    /\ fuzzyCalls = 0
    /\ stages = <<>>
    /\ result = None
    /\ kw = None
    /\ inv = None

\* the clock advances of one run
MaxTicks == 4

CACHE_EXPIRY_SECS == 3600

\* aidoku::imports::std::current_date
current_date == host.now

\* get_hidden_cache
get_hidden_cache ==
    IF IsSome(defaults.hiddenCache) /\ defaults.hiddenCache.some # <<>>
    THEN defaults.hiddenCache
    ELSE None

\* a validity test that still accepts the cache at the expiry itself
ValidThroughExpiry ==
    IF IsSome(defaults.hiddenCacheTime) /\ IsSome(ParseI64(defaults.hiddenCacheTime.some))
    THEN current_date - ParseI64(defaults.hiddenCacheTime.some).some <= CACHE_EXPIRY_SECS
    ELSE FALSE

\* is_hidden_cache_valid
is_hidden_cache_valid ==
    IF IsSome(defaults.hiddenCacheTime) /\ IsSome(ParseI64(defaults.hiddenCacheTime.some))
    THEN current_date - ParseI64(defaults.hiddenCacheTime.some).some < CACHE_EXPIRY_SECS
    ELSE FALSE

\* the data handed to set_hidden_cache: no entry, one line
CacheData == { <<>>, <<"7", "|", "n", "|", "a">> }

\* the steps of the clock between two calls: a second, and a second less
\* than the hour
ClockSteps == {1, CACHE_EXPIRY_SECS - 1}

CacheInit ==
    /\ SettingsIdle
    /\ defaults = NoDefaults
    /\ \E now \in {0, 5} : host = [now |-> now, ticks |-> 0, last_set |-> None]

\* set_hidden_cache
SetHiddenCache ==
    /\ \E data \in CacheData :
           defaults' = [defaults EXCEPT !.hiddenCache = Some(data),
                                        !.hiddenCacheTime = Some(ToString(current_date))]
    /\ host' = [host EXCEPT !.last_set = Some(host.now)]
    /\ UNCHANGED settingsFrame

\* clear_hidden_cache
ClearHiddenCache ==
    /\ defaults' = [defaults EXCEPT !.hiddenCache = None, !.hiddenCacheTime = None]
    /\ host' = [host EXCEPT !.last_set = None]
    /\ UNCHANGED settingsFrame

\* the wall clock of the host advances
Tick ==
    /\ host.ticks < MaxTicks
    /\ \E d \in ClockSteps : host' = [host EXCEPT !.now = @ + d, !.ticks = @ + 1]
    /\ UNCHANGED <<defaults, settingsFrame>>

CacheNext == SetHiddenCache \/ ClearHiddenCache \/ Tick

SpecCache == CacheInit /\ [][CacheNext]_vars

----------------------------------------------------------------------------
(* Claims about the hidden-content cache *)

\* C22: the hidden-content cache is valid exactly while less than 3600 seconds
\* have passed since the last set_hidden_cache: valid at every clock reading
\* less than 3600 seconds after the set, not valid from 3600 seconds on, and
\* not valid, with get_hidden_cache returning nothing, after
\* clear_hidden_cache until the next set, for any interleaving of set, clear
\* and clock advance.
C22_CacheValidForOneHour ==
    /\ is_hidden_cache_valid <=>
           (IsSome(host.last_set) /\ host.now - host.last_set.some < 3600)
    /\ ~IsSome(host.last_set) => get_hidden_cache = None

C22_Witness ==
    /\ IsSome(host.last_set)
    /\ host.now - host.last_set.some = 3600
    /\ ~is_hidden_cache_valid
    /\ IsSome(get_hidden_cache)

----------------------------------------------------------------------------
(* Claims about the error codes of search_by_keyword *)

IsOk(res) == "ok" \in DOMAIN res

\* the batch the step sends
SentBatch == kw'.batches[Len(kw'.batches)]

SendsBatch == kw.pc = "Batch" /\ Len(kw'.batches) = Len(kw.batches) + 1

C23_AnyErrnoStep ==
    (/\ SendsBatch
     /\ kw.batches = <<>>
     /\ IsSome(SentBatch.search_errno)
     /\ SentBatch.search_errno.some # 0) => kw'.pc = "Refresh"

\* C23 as stated: any non-zero error code of the primary search response
\* triggers one token-refresh-and-retry cycle, and the call returns Ok.
C23_AnyErrnoTriggersRefresh ==
    /\ [][C23_AnyErrnoStep]_vars
    /\ [](kw.pc = "Done" => IsOk(kw.result))

C23_AuthErrnoStep ==
    \* errno 99 in the first batch asks for the refresh
    /\ (/\ SendsBatch
        /\ kw.batches = <<>>
        /\ SentBatch.search_errno = Some(AuthErrno)) => kw'.pc = "Refresh"
    \* any other error code, when no hidden page carried errno 99: no refresh,
    \* no retry, and the data of the response is kept
    /\ (/\ SendsBatch
        /\ IsSome(SentBatch.search_errno)
        /\ SentBatch.search_errno.some \notin {0, AuthErrno}
        /\ ~SentBatch.errno99)
           => /\ kw'.pc = "Merge"
              /\ kw'.refreshes = kw.refreshes
              /\ kw'.search_data = SentBatch.search_data

\* C23: in search_by_keyword an errno of 99 on the primary search response
\* triggers one token-refresh-and-retry cycle; any other non-zero errno
\* triggers none and the data the response carries, if any, is used; the call
\* returns Ok in every case, with the empty page once the cycle is exhausted.
C23_AuthErrnoTriggersRefresh ==
    /\ [][C23_AuthErrnoStep]_vars
    /\ [](kw.pc = "Done" =>
              /\ IsOk(kw.result)
              /\ (kw.batches # <<>> /\ kw.batches[Len(kw.batches)].auth_error)
                     => kw.result = Ok(DefaultPage))

C23_Witness ==
    /\ kw.pc = "Done"
    /\ Len(kw.batches) = 1
    /\ kw.batches[1].search_errno = Some(1)
    /\ kw.refreshes = <<>>
    /\ Len(kw.result.ok.entries) = Len(KeywordSearchList)

\* C28: in search_by_keyword the data of an attempt is committed all or
\* nothing: the search list and the hidden items of an attempt enter the
\* result only if no response of the attempt carried errno 99; when an
\* attempt ends with an authorization error and no retry follows, the search
\* list parsed in that attempt is discarded and the page returned is empty
\* with has_next_page = false.
C28_CommitAllOrNothing ==
    /\ [][(SendsBatch /\ SentBatch.errno99) =>
              (kw'.search_data = kw.search_data /\ kw'.hidden_items = kw.hidden_items)]_vars
    /\ []((IsSome(kw.search_data) \/ kw.hidden_items # <<>>) =>
              (kw.batches # <<>> /\ ~kw.batches[Len(kw.batches)].errno99))
    /\ []((kw.pc = "Done" /\ kw.batches # <<>> /\ kw.batches[Len(kw.batches)].errno99)
              => kw.result = Ok(DefaultPage))

C28_Witness ==
    /\ kw.pc = "Done"
    /\ Len(kw.batches) = 2
    /\ kw.batches[2].search_data = Some([list |-> KeywordSearchList])
    /\ kw.batches[2].search_errno = Some(0)
    /\ kw.batches[2].errno99
    /\ kw.result = Ok(DefaultPage)

\* C29: every page search_by_keyword returns has pairwise distinct entry
\* keys, whatever the search response and the hidden pages list, also when an
\* item is on two hidden pages or twice in the search list.
C29_KeywordPageKeysDistinct ==
    (kw.pc = "Done" /\ IsOk(kw.result)) =>
        NoDuplicates([i \in 1..Len(kw.result.ok.entries) |-> kw.result.ok.entries[i].key])

----------------------------------------------------------------------------
(* Claims about the retries of the fuzzy fallback *)

\* C24: the fuzzy fallback issues at most two retry searches, core_name
\* before short_core; no retry has an empty term or the original author
\* string as its term, and no retry is issued once a strict or partial tag ID
\* has been found.
C24_FuzzyRetries ==
    Returned("fuzzy") =>
        LET cores == FuzzyCores(inv.author)
            queries == inv.ret.some.queries
            first == collect_tags_from_search(inv.resps[1].search, inv.resps[1].details,
                                              inv.author, inv.st)
        IN  /\ queries \in {<<>>, <<cores[1]>>, <<cores[2]>>, cores}
            /\ \A i \in 1..Len(queries) : queries[i] # <<>> /\ queries[i] # inv.author
            /\ inv.ret.some.search = Len(queries)
            /\ Len(queries) = 2 =>
                   (first.st.strict_ids = <<>> /\ first.st.partial_ids = <<>>)

C24_Witness ==
    /\ Returned("fuzzy")
    /\ inv.author = sABCD
    /\ inv.ret.some.queries = <<sAB>>
    /\ inv.ret.some.st.partial_ids # <<>>

----------------------------------------------------------------------------
(* Claims about the matching of the hidden scan *)

\* one comma-separated name of the authors field is, trimmed, the target
StrictRule(item, target) ==
    /\ IsSome(item.authors)
    /\ \E tok \in SeqSet(Split(item.authors.some, ",")) : Trim(tok) = target

\* the substring rule of the Search Matcher accepts the authors field
SubstringRule(item, target) ==
    Classify(UnwrapOr(item.authors, <<>>), target) \in {"Strict", "Partial"}

\* C25: in scan_hidden_content an item matches in strict mode iff one
\* comma-separated name of its authors field equals the target author after
\* trimming, an item without authors field never, and in non-strict mode iff
\* the substring rule of the Search Matcher accepts it; an item whose ID is in
\* the seen-ID set is never returned, and every returned ID is added to the
\* set.
C25_HiddenScanMatching ==
    Returned("scan") =>
        LET found == inv.ret.some.found
            keys == [i \in 1..Len(found) |-> found[i].key]
            rule(item) == IF inv.strict_mode THEN StrictRule(item, inv.target_author)
                          ELSE SubstringRule(item, inv.target_author)
        IN  /\ \A i \in 1..Len(inv.items) :
                   InSeq(ToString(inv.items[i].id), keys)
                       <=> (rule(inv.items[i]) /\ inv.items[i].id \notin inv.seen_ids)
            /\ NoDuplicates(keys)
            /\ \A i \in 1..Len(keys) : ParseI64(keys[i]).some \notin inv.seen_ids
            /\ inv.ret.some.seen_ids =
                   inv.seen_ids \cup {ParseI64(keys[i]).some : i \in 1..Len(keys)}

C25_Witness ==
    /\ Returned("scan")
    /\ inv.strict_mode
    /\ inv.seen_ids = {7}
    /\ Len(inv.items) = 2
    /\ inv.items[1].id = 7
    /\ inv.items[2].id = 1
    /\ Len(inv.ret.some.found) = 1
    /\ inv.ret.some.found[1].key = <<"1">>
    /\ inv.ret.some.seen_ids = {1, 7}

----------------------------------------------------------------------------
(* The settings, the login and the automatic check-in.  host.op is the last *)
(* operation: its name and, when it issued a check-in request, the token of *)
(* the request, its outcome and the store at the moment of the request.     *)

\* should_hide_item
should_hide_item(hidden_status) ==
    IF show_hidden_content THEN FALSE ELSE UnwrapOr(hidden_status, 0) = 1

\* get_token on a given store
GetToken(d) ==
    IF IsSome(d.auth_token) /\ d.auth_token.some # <<>> THEN d.auth_token ELSE None

set_token(d, token) == [d EXCEPT !.auth_token = Some(token)]

clear_token(d) == [d EXCEPT !.auth_token = None]

get_auto_checkin(d) == UnwrapOr(d.autoCheckin, FALSE)

\* a flag test that never sees the flag
FlagNeverSeen(d) == FALSE

has_checkin_flag(d) == IsSome(d.lastCheckin) /\ d.lastCheckin.some # <<>>

sDone == <<"d", "o", "n", "e">>

set_last_checkin(d, date) == [d EXCEPT !.lastCheckin = Some(date)]

clear_checkin_flag(d) == [d EXCEPT !.lastCheckin = None]

\* settings::clear_all: the token is cleared; the check-in flag may be
ClearAllOutcomes(d) == { clear_token(d), clear_checkin_flag(clear_token(d)) }

\* net::check_in: errno 0, another errno, a transport or decode error
CheckinOutcomes == { Ok(TRUE), Ok(FALSE), Err }

\* net::login: a token, an empty token, no token, an error
LoginOutcomes == { Ok(Some(<<"t">>)), Ok(Some(<<>>)), Ok(None), Err }

\* the keys the settings page of the host writes
ToggleKeys == {"enhancedMode", "showHiddenContent", "autoCheckin"}

NoCheckin == [issued |-> FALSE]

Checkin(token, outcome, at) ==
    [issued |-> TRUE, token |-> token, outcome |-> outcome, at |-> at]

Op(name, checkin) == [op |-> [name |-> name, checkin |-> checkin]]

\* the store after a check-in with the given outcome
AfterCheckin(d, outcome) ==
    IF outcome = Ok(TRUE) THEN set_last_checkin(d, sDone) ELSE d

SettingsInit ==
    /\ SettingsIdle
    /\ defaults = NoDefaults
    /\ host = Op("install", NoCheckin)

\* the host writes a toggle of the settings page
SetToggle ==
    /\ \E key \in ToggleKeys, v \in {None, Some(TRUE), Some(FALSE)} :
           defaults' = [defaults EXCEPT ![key] = v]
    /\ host' = Op("toggle", NoCheckin)
    /\ UNCHANGED settingsFrame

\* settings::clear_token
ClearToken ==
    /\ defaults' = clear_token(defaults)
    /\ host' = Op("clear_token", NoCheckin)
    /\ UNCHANGED settingsFrame

\* settings::clear_checkin_flag
ClearCheckinFlag ==
    /\ defaults' = clear_checkin_flag(defaults)
    /\ host' = Op("clear_checkin_flag", NoCheckin)
    /\ UNCHANGED settingsFrame

\* Zaimanhua::new: the automatic check-in at the initialisation of the source
SourceNew ==
    /\ IF IsSome(GetToken(defaults)) /\ get_auto_checkin(defaults)
          /\ ~has_checkin_flag(defaults)
       THEN \E outcome \in CheckinOutcomes :
                /\ defaults' = AfterCheckin(defaults, outcome)
                /\ host' = Op("new", Checkin(GetToken(defaults).some, outcome, defaults))
       ELSE /\ host' = Op("new", NoCheckin)
            /\ UNCHANGED defaults
    /\ UNCHANGED settingsFrame

\* handle_basic_login: a wrong key, the logout, a missing password, the login
HandleBasicLogin ==
    /\ \E key \in {"login", "other"}, username \in {<<>>, <<"u">>},
          password \in {<<>>, <<"p">>} :
           IF key # "login"
           THEN /\ host' = Op("login_invalid", NoCheckin)
                /\ UNCHANGED defaults
           ELSE IF username = <<>>
           THEN /\ defaults' \in ClearAllOutcomes(defaults)
                /\ host' = Op("logout", NoCheckin)
           ELSE IF password = <<>>
           THEN /\ host' = Op("login_refused", NoCheckin)
                /\ UNCHANGED defaults
           ELSE \E cleared \in ClearAllOutcomes(defaults), logged \in LoginOutcomes :
                    IF logged # Err /\ IsSome(logged.ok)
                    THEN LET token == logged.ok.some
                             d == set_token(cleared, token)
                         IN  IF get_auto_checkin(d) /\ ~has_checkin_flag(d)
                             THEN \E outcome \in CheckinOutcomes :
                                      /\ defaults' = AfterCheckin(d, outcome)
                                      /\ host' = Op("login", Checkin(token, outcome, d))
                             ELSE /\ defaults' = d
                                  /\ host' = Op("login", NoCheckin)
                    ELSE /\ defaults' = cleared
                         /\ host' = Op("login_failed", NoCheckin)
    /\ UNCHANGED settingsFrame

\* handle_notification("checkin"): the check-in the user asks for
HandleNotification ==
    /\ IF IsSome(GetToken(defaults))
       THEN \E outcome \in CheckinOutcomes :
                host' = Op("notification", Checkin(GetToken(defaults).some, outcome, defaults))
       ELSE host' = Op("notification", NoCheckin)
    /\ UNCHANGED <<defaults, settingsFrame>>

SettingsNext ==
    \/ SetToggle
    \/ ClearToken
    \/ ClearCheckinFlag
    \/ SourceNew
    \/ HandleBasicLogin
    \/ HandleNotification

SpecSettings == SettingsInit /\ [][SettingsNext]_vars

----------------------------------------------------------------------------
(* Claims about the settings *)

HiddenStatuses == {None, Some(0), Some(1), Some(2)}

\* C26: in every reachable settings state show_hidden_content() implies
\* get_enhanced_mode(), which implies that a non-empty token is stored; after
\* clear_token both are false whatever the stored enhancedMode and
\* showHiddenContent are; should_hide_item hides an item iff
\* show_hidden_content() is false and the hidden flag of the item is 1.
C26_HiddenImpliesEnhancedImpliesToken ==
    /\ show_hidden_content => get_enhanced_mode
    /\ get_enhanced_mode => (IsSome(defaults.auth_token) /\ defaults.auth_token.some # <<>>)
    /\ host.op.name = "clear_token" => (~get_enhanced_mode /\ ~show_hidden_content)
    /\ \A h \in HiddenStatuses :
           should_hide_item(h) <=> (~show_hidden_content /\ h = Some(1))

C26_Witness ==
    /\ host.op.name = "clear_token"
    /\ defaults.enhancedMode = Some(TRUE)
    /\ defaults.showHiddenContent = Some(TRUE)
    /\ ~get_enhanced_mode
    /\ should_hide_item(Some(1))

FlagSet(d) == IsSome(d.lastCheckin) /\ d.lastCheckin.some # <<>>

C27_Step ==
    LET checkin == host'.op.checkin
        automatic == host'.op.name \in {"new", "login"} /\ checkin.issued
    IN  \* an automatic check-in is issued with the stored token, with
        \* autoCheckin on and no flag set
        /\ automatic =>
               /\ checkin.at.auth_token = Some(checkin.token)
               /\ checkin.at.autoCheckin = Some(TRUE)
               /\ ~FlagSet(checkin.at)
               \* a check-in that succeeded sets the flag, one that failed
               \* leaves it unset
               /\ FlagSet(defaults') <=> checkin.outcome = Ok(TRUE)
        \* at the initialisation the store of the request is the store before
        /\ (automatic /\ host'.op.name = "new") => checkin.at = defaults
        \* while the flag is set no initialisation issues a check-in
        /\ (FlagSet(defaults) /\ host'.op.name = "new") => ~checkin.issued
        \* the flag stays until it is cleared
        /\ (FlagSet(defaults) /\ ~FlagSet(defaults'))
               => host'.op.name \in {"clear_checkin_flag", "logout", "login", "login_failed"}

====
